---- MODULE Spec2Model ----
(***************************************************************************)
(* A model of the annotated Lua 5.3.4 core: the memory trampoline (lmem.c), *)
(* the string table (lstring.c), number <-> text conversion (lobject.c) and *)
(* the stack-based embedding API (lapi.c).                                  *)
(*                                                                          *)
(* Each subsystem has its own specification (SpecNum, SpecMem, SpecStr,     *)
(* SpecApi, ...); the variables of the other subsystems stay at their initial    *)
(* value in it.                                                             *)
(***************************************************************************)
EXTENDS Integers, Sequences, FiniteSets, TLC

VARIABLES
  \* ---- number <-> text conversion (lobject.c) ----
  n_pc,      \* "int": an integer waits for tostring; "text": a text waits for
             \* luaO_str2num; "done": luaO_str2num has run
  n_val,     \* the lua_Integer handed to lua_integer2str (NoInt when none)
  n_txt,     \* the zero-terminated text, a sequence of characters
  n_res      \* the result of luaO_str2num: [sz |-> size_t, o |-> TValue]

numvars == <<n_pc, n_val, n_txt, n_res>>

VARIABLES
  \* ---- memory manager (lmem.c) ----
  GCdebt,    \* g->GCdebt
  g_version, \* g->version: 0 (NULL) while the state is being built
  blocks,    \* the blocks the allocator has handed out: block id -> size
  m_last     \* what the last luaM_realloc_ call did (NoCall before any)

memvars == <<GCdebt, g_version, blocks, m_last>>

VARIABLES
  \* ---- string table (lstring.c) ----
  strt_hash,      \* g->strt.hash: the bucket array; bucket i is strt_hash[i + 1],
                  \* the chain of TString objects linked by u.hnext, head
                  \* first.  A linked object is linked once, so its place
                  \* <<i + 1, j>> in the table stands for its address.
  strt_size,      \* g->strt.size
  strt_nuse,      \* g->strt.nuse
  g_seed,         \* g->seed
  g_currentwhite, \* g->currentwhite & WHITEBITS
  g_gcstate,      \* "pause" (also marking) or "sweep"
  s_last          \* the last string operation: what it did and the string
                  \* it returned or removed, by its place (NoStr before any)

strvars == <<strt_hash, strt_size, strt_nuse, g_seed,
             g_currentwhite, g_gcstate, s_last>>

VARIABLES
  \* ---- long strings (lstring.c) ----
  g_lngstrs       \* the long strings created, oldest first; a long string
                  \* is not linked in the table, its place in this sequence
                  \* stands for its address

lngvars == <<g_lngstrs>>

VARIABLES
  \* ---- one thread and the embedding API (lapi.c) ----
  L_stack,     \* the live part of L->stack: L_stack[p + 1] is the slot at
               \* offset p from L->stack, and L->top is at offset Len(L_stack)
  L_stacksize, \* L->stacksize
  L_ci,        \* the chain of CallInfo records, L->ci last: func and top are
               \* offsets from L->stack; top0 and nargs remember the
               \* lua_callk call that made the frame
  L_status,    \* L->status, or the error code of an error nothing caught
  a_last       \* the last API call: its arguments, what it returned, and
               \* L->top and ci->top before it

apivars == <<L_stack, L_stacksize, L_ci, L_status, a_last>>

VARIABLES
  \* ---- one growing vector (luaM_growvector, lmem.h and lmem.c) ----
  v_size,    \* the caller's capacity variable ('size')
  v_nelems,  \* the elements in use ('nelems')
  v_limit,   \* the limit the caller passes for this vector
  v_esize,   \* sizeof(t), the size of one element in bytes
  v_wide,    \* the build: whether int is as wide as size_t
  v_last     \* what the last call did (NoVec before any)

vecvars == <<v_size, v_nelems, v_limit, v_esize, v_wide, v_last>>

VARIABLES
  \* ---- one call of luaS_hash (lstring.c) ----
  h_str,     \* the bytes handed to luaS_hash
  h_res      \* what the call did (NoHash before it)

hashvars == <<h_str, h_res>>

VARIABLES
  \* ---- arithmetic (lobject.c) ----
  ar_last         \* the last luaO_arith call: operator, operands, the path
                  \* taken and the value stored in res

arithvars == <<ar_last>>

VARIABLES
  \* ---- literal cache (lstring.c) ----
  c_strs,         \* the strings the cache may refer to, by address; the
                  \* first is g->memerrmsg
  g_strcache,     \* g->strcache: STRCACHE_N rows of STRCACHE_M addresses
  c_white,        \* g->currentwhite in the specification of the cache
  c_last          \* the last operation on the cache and the cache before it

cachevars == <<c_strs, g_strcache, c_white, c_last>>

VARIABLES
  \* ---- heap objects written through the API (lapi.c) ----
  h_marked,       \* marked of each object: GRAY, a white or BLACK
  h_white,        \* g->currentwhite
  h_gcstate,      \* g->gcstate: "pause", "propagate" or "sweep"
  h_node,         \* the entries of each table, by key
  h_flags,        \* flags of each table: the events known to be absent
  h_metatable,    \* metatable of each table and of the userdata
  h_user,         \* the user value of the userdata
  h_upvalue,      \* upvalue[0] of the C closure
  h_last          \* the last operation

heapvars == <<h_marked, h_white, h_gcstate, h_node, h_flags, h_metatable,
              h_user, h_upvalue, h_last>>

VARIABLES
  \* ---- a second thread of the same state (lapi.c, lua_xmove) ----
  T_stack         \* the live part of its stack, as L_stack; its only
                  \* frame is the base frame of a new thread

thrvars == <<T_stack>>

VARIABLES
  \* ---- upvalue cells of Lua closures (lapi.c, lua_upvaluejoin) ----
  u_upvals,       \* f->upvals[n - 1] of each closure: the address of a cell
  u_cells,        \* each UpVal: refcount, open or closed, and whether its
                  \* memory has been returned to the allocator
  u_last          \* the last operation; uaf: it used a freed cell

upvvars == <<u_upvals, u_cells, u_last>>

VARIABLES
  \* ---- the input of lua_pushvfstring (lobject.c, luaO_pushvfstring) ----
  f_fmt,          \* fmt: the bytes of the format, without the final '\0'
  f_argp          \* argp: what the caller passed for each directive

fmtvars == <<f_fmt, f_argp>>

vars == <<numvars, memvars, strvars, lngvars, apivars, vecvars, hashvars, arithvars, cachevars, heapvars, thrvars, upvvars, fmtvars>>

\* what the actions of one subsystem leave alone
notnum == <<memvars, strvars, lngvars, apivars, vecvars, hashvars, arithvars, cachevars, heapvars, thrvars, upvvars, fmtvars>>
notmem == <<numvars, strvars, lngvars, apivars, vecvars, hashvars, arithvars, cachevars, heapvars, thrvars, upvvars, fmtvars>>
notstr == <<numvars, memvars, lngvars, apivars, vecvars, hashvars, arithvars, cachevars, heapvars, thrvars, upvvars, fmtvars>>
notapi == <<numvars, memvars, strvars, lngvars, vecvars, hashvars, arithvars, cachevars, heapvars, thrvars, upvvars, fmtvars>>
notvec == <<numvars, memvars, strvars, lngvars, apivars, hashvars, arithvars, cachevars, heapvars, thrvars, upvvars, fmtvars>>
nothash == <<numvars, memvars, strvars, lngvars, apivars, vecvars, arithvars, cachevars, heapvars, thrvars, upvvars, fmtvars>>
notarith == <<numvars, memvars, strvars, lngvars, apivars, vecvars, hashvars, cachevars, heapvars, thrvars, upvvars, fmtvars>>
notcache == <<numvars, memvars, strvars, lngvars, apivars, vecvars, hashvars, arithvars, heapvars, thrvars, upvvars, fmtvars>>
\* what a move between the two threads leaves alone
notapithr == <<numvars, memvars, strvars, lngvars, vecvars, hashvars, arithvars, cachevars, heapvars, upvvars, fmtvars>>
notapifmt == <<numvars, memvars, strvars, lngvars, vecvars, hashvars, arithvars, cachevars, heapvars, upvvars, thrvars>>
notheap == <<numvars, memvars, strvars, lngvars, apivars, vecvars, hashvars, arithvars, cachevars, thrvars, upvvars, fmtvars>>
\* what the creation of a long string leaves alone
notlng == <<numvars, memvars, apivars, vecvars, hashvars, arithvars, cachevars, heapvars, thrvars, upvvars, fmtvars>>
notupv == <<numvars, memvars, strvars, lngvars, apivars, vecvars, hashvars, arithvars, cachevars, heapvars, thrvars, fmtvars>>

(***************************************************************************)
(* Bounds of the model.                                                     *)
(***************************************************************************)
\* width in bits of lua_Integer / lua_Unsigned in the model (the build's is 64)
IntBits == 8
\* longest free-form text handed to luaO_str2num, in characters
MaxTextLen == 3
\* most digits of a decimal numeral handed to luaO_str2num
MaxDigits == 3
\* most blocks allocated at a time, and the largest block size in bytes
MaxBlocks == 2
MaxSize == 2
\* most bytes one emergency collection takes off GCdebt
MaxFreed == 1
\* GCdebt is kept within -MaxDebt .. MaxDebt
MaxDebt == 4
\* width in bits of 'unsigned int' in the model (the build's is 32)
HashBits == 8
\* the number of different strings handed to luaS_newlstr by the model
MaxInputs == 3
\* most strings created by the model linked in the table at a time
MaxStrings == 2
\* L->top stays within MaxTop slots of L->stack, and at most MaxDepth
\* frames are active
MaxTop == 3
\* the longest stack segment the model rotates
MaxClosures == 2
MaxPieces == 2
MaxSeg == 4
MaxDepth == 2
\* most values on the stack before the conversions start
MaxConvVals == 1
\* the stack is not grown beyond MaxStackSize slots
MaxStackSize == 100
\* the bucket array starts with 2^MinLogBuckets buckets (the build's
\* MINSTRTABSIZE is 2^7); an int of the model has MaxLogBuckets + 1 value
\* bits (the build's has 31), so the array has at most 2^MaxLogBuckets
\* buckets
MinLogBuckets == 0
MaxLogBuckets == 1
\* width in bits of size_t in the model (the build's is 64), the largest
\* sizeof(t) of a vector's elements, and the largest limit of a vector
SizeBits == 5
MaxElemSize == 4
MaxLimit == 7
\* the longest string handed to luaS_hash on its own
MaxHashLen == 42
\* most long strings alive at a time
MaxLong == 2

(***************************************************************************)
(* Basic types (lua.h) and variant tags (lobject.h).                        *)
(***************************************************************************)
LUA_TNIL == 0
LUA_TBOOLEAN == 1
LUA_TLIGHTUSERDATA == 2
LUA_TNUMBER == 3
LUA_TSTRING == 4
LUA_TTABLE == 5

\* thread status / error codes (lua.h)
LUA_OK == 0
LUA_ERRMEM == 4

LUA_TSHRSTR == LUA_TSTRING + 0 * 16
LUA_TLNGSTR == LUA_TSTRING + 1 * 16
LUA_TNUMFLT == LUA_TNUMBER + 0 * 16
LUA_TNUMINT == LUA_TNUMBER + 1 * 16

RECURSIVE Pow(_, _)
Pow(b, e) == IF e = 0 THEN 1 ELSE b * Pow(b, e - 1)

\* 2^IntBits: lua_Unsigned arithmetic is modulo this
UMod == Pow(2, IntBits)
LUA_MAXINTEGER == Pow(2, IntBits - 1) - 1
LUA_MININTEGER == 0 - Pow(2, IntBits - 1)
IntRange == LUA_MININTEGER .. LUA_MAXINTEGER

\* l_castU2S: the lua_Unsigned u read as a two's-complement lua_Integer
l_castU2S(u) == IF u > LUA_MAXINTEGER THEN u - UMod ELSE u
\* l_castS2U: the lua_Integer i as a lua_Unsigned
l_castS2U(i) == i % UMod

RECURSIVE Gcd(_, _)
Gcd(a, b) == IF b = 0 THEN a ELSE Gcd(b, a % b)
Abs(x) == IF x < 0 THEN 0 - x ELSE x

(***************************************************************************)
(* Tagged values.  A float is an exact fraction num/den in lowest terms    *)
(* (den > 0); the model's floats are those the texts below denote.         *)
(***************************************************************************)
setivalue(x) == [tt |-> LUA_TNUMINT, v |-> x]
setfltvalue(num, den) ==
  LET g == Gcd(Abs(num), den)
  IN  [tt |-> LUA_TNUMFLT, v |-> <<num \div g, den \div g>>]
setnilvalue == [tt |-> LUA_TNIL, v |-> 0]

(***************************************************************************)
(* Characters and C strings.  A C string is a sequence of one-character    *)
(* strings; reading at its length + 1 yields the terminating NUL.          *)
(***************************************************************************)
NUL == "\\0"
DigitChars == <<"0", "1", "2", "3", "4", "5", "6", "7", "8", "9">>
HexChars == DigitChars \o <<"a", "b", "c", "d", "e", "f">>
At(s, p) == IF p >= 1 /\ p <= Len(s) THEN s[p] ELSE NUL
lisspace(c) == c \in {" ", "\t", "\n"}
lisdigit(c) == \E i \in 1..10 : DigitChars[i] = c
lisxdigit(c) == \E i \in 1..16 : HexChars[i] = c
\* luaO_hexavalue, also the value of a decimal digit (c - '0')
luaO_hexavalue(c) == (CHOOSE i \in 1..16 : HexChars[i] = c) - 1

RECURSIVE SkipSpaces(_, _)
SkipSpaces(s, p) == IF lisspace(At(s, p)) THEN SkipSpaces(s, p + 1) ELSE p

\* isneg: skips a sign at p; neg is 1 for '-'
isneg(s, p) ==
  IF At(s, p) = "-" THEN [neg |-> 1, p |-> p + 1]
  ELSE IF At(s, p) = "+" THEN [neg |-> 0, p |-> p + 1]
  ELSE [neg |-> 0, p |-> p]

(***************************************************************************)
(* l_str2int (lobject.c): text to lua_Integer.  Pointers into the text are *)
(* positions 1 .. Len(s) + 1; a failed conversion (NULL) has ok = FALSE.    *)
(***************************************************************************)
MAXBY10 == LUA_MAXINTEGER \div 10
MAXLASTD == LUA_MAXINTEGER % 10

\* the overflow test of the decimal loop, before a = a * 10 + d
str2int_overflow_nocheck(a, d, neg) == FALSE
str2int_overflow_noneg(a, d, neg) ==
  a >= MAXBY10 /\ (a > MAXBY10 \/ d > MAXLASTD)
str2int_overflow(a, d, neg) ==
  a >= MAXBY10 /\ (a > MAXBY10 \/ d > MAXLASTD + neg)

\* the decimal loop: reads digits from p on, accumulating in the unsigned a
RECURSIVE str2int_dec(_, _, _, _, _)
str2int_dec(s, p, a, empty, neg) ==
  IF lisdigit(At(s, p))
  THEN LET d == luaO_hexavalue(At(s, p))
       IN  IF str2int_overflow(a, d, neg)
           THEN [overflow |-> TRUE, p |-> p, a |-> a, empty |-> empty]
           ELSE str2int_dec(s, p + 1, (a * 10 + d) % UMod, 0, neg)
  ELSE [overflow |-> FALSE, p |-> p, a |-> a, empty |-> empty]

\* the hexadecimal loop: no overflow test, the accumulator wraps around
RECURSIVE str2int_hex(_, _, _, _)
str2int_hex(s, p, a, empty) ==
  IF lisxdigit(At(s, p))
  THEN str2int_hex(s, p + 1, (a * 16 + luaO_hexavalue(At(s, p))) % UMod, 0)
  ELSE [overflow |-> FALSE, p |-> p, a |-> a, empty |-> empty]

l_str2int(s) ==
  LET p0 == SkipSpaces(s, 1)
      sg == isneg(s, p0)
      hex == At(s, sg.p) = "0" /\ At(s, sg.p + 1) \in {"x", "X"}
      r == IF hex THEN str2int_hex(s, sg.p + 2, 0, 1)
           ELSE str2int_dec(s, sg.p, 0, 1, sg.neg)
      p2 == SkipSpaces(s, r.p)
  IN  IF r.overflow \/ r.empty = 1 \/ At(s, p2) # NUL
      THEN [ok |-> FALSE, e |-> 0, i |-> 0]
      ELSE [ok |-> TRUE, e |-> p2,
            i |-> l_castU2S(IF sg.neg = 1 THEN (0 - r.a) % UMod ELSE r.a)]

(***************************************************************************)
(* lua_str2number / lua_strx2number: the C library's strtod on texts made  *)
(* of spaces, signs, digits, hexadecimal digits, 'x' and '.' (no exponent, *)
(* no "inf"/"nan").  endp = 1 means that nothing was recognised.           *)
(***************************************************************************)
RECURSIVE ScanDigits(_, _, _, _, _)
ScanDigits(s, p, base, val, n) ==
  IF (IF base = 16 THEN lisxdigit(At(s, p)) ELSE lisdigit(At(s, p)))
  THEN ScanDigits(s, p + 1, base, val * base + luaO_hexavalue(At(s, p)), n + 1)
  ELSE [p |-> p, val |-> val, n |-> n]

lua_str2number(s) ==
  LET p0 == SkipSpaces(s, 1)
      sg == isneg(s, p0)
      hex == /\ At(s, sg.p) = "0" /\ At(s, sg.p + 1) \in {"x", "X"}
             /\ \/ lisxdigit(At(s, sg.p + 2))
                \/ At(s, sg.p + 2) = "." /\ lisxdigit(At(s, sg.p + 3))
      base == IF hex THEN 16 ELSE 10
      ip == ScanDigits(s, IF hex THEN sg.p + 2 ELSE sg.p, base, 0, 0)
      fp == IF At(s, ip.p) = "." THEN ScanDigits(s, ip.p + 1, base, ip.val, 0)
            ELSE [p |-> ip.p, val |-> ip.val, n |-> 0]
  IN  IF ip.n + fp.n = 0
      THEN [endp |-> 1, num |-> 0, den |-> 1]
      ELSE [endp |-> fp.p,
            num |-> IF sg.neg = 1 THEN 0 - fp.val ELSE fp.val,
            den |-> Pow(base, fp.n)]

\* l_str2dloc: the conversion, then nothing but spaces up to the NUL
l_str2dloc(s) ==
  LET r == lua_str2number(s)
      e == SkipSpaces(s, r.endp)
  IN  IF r.endp = 1 \/ At(s, e) # NUL
      THEN [ok |-> FALSE, e |-> 0, num |-> 0, den |-> 1]
      ELSE [ok |-> TRUE, e |-> e, num |-> r.num, den |-> r.den]

\* l_str2d: rejects 'n'/'N' ("inf", "nan"); the retry with the locale's
\* radix mark repeats the conversion (the radix mark is '.')
l_str2d(s) ==
  LET special == {i \in 1..Len(s) : s[i] \in {".", "x", "X", "n", "N"}}
      mode == IF special = {} THEN NUL
              ELSE s[CHOOSE i \in special : \A j \in special : i <= j]
  IN  IF mode \in {"n", "N"} THEN [ok |-> FALSE, e |-> 0, num |-> 0, den |-> 1]
      ELSE l_str2dloc(s)

\* luaO_str2num: integer first, else float; the size of the text or 0
luaO_str2num(s) ==
  LET ri == l_str2int(s)
      rd == l_str2d(s)
  IN  IF ri.ok THEN [sz |-> (ri.e - 1) + 1, o |-> setivalue(ri.i)]
      ELSE IF rd.ok THEN [sz |-> (rd.e - 1) + 1, o |-> setfltvalue(rd.num, rd.den)]
      ELSE [sz |-> 0, o |-> setnilvalue]

(***************************************************************************)
(* lua_integer2str: snprintf with "%d" for the integer type: a '-' for a   *)
(* negative number, then the decimal digits of the magnitude.              *)
(***************************************************************************)
RECURSIVE DecDigits(_)
DecDigits(m) ==
  IF m < 10 THEN <<DigitChars[m + 1]>>
  ELSE DecDigits(m \div 10) \o <<DigitChars[(m % 10) + 1]>>

lua_integer2str(i) == IF i < 0 THEN <<"-">> \o DecDigits(0 - i) ELSE DecDigits(i)

(***************************************************************************)
(* lua_number2str: snprintf with "%.14g" on the model's floats, whose      *)
(* decimal expansions terminate within 14 digits: sign, integer part and,  *)
(* for a non-integral value, '.' and the fraction digits.                  *)
(***************************************************************************)
RECURSIVE FracDigits(_, _)
FracDigits(r, den) ==
  IF r = 0 THEN <<>>
  ELSE <<DigitChars[((r * 10) \div den) + 1]>> \o FracDigits((r * 10) % den, den)

lua_number2str(f) ==
  LET m == Abs(f[1])
      ip == DecDigits(m \div f[2])
      fr == FracDigits(m % f[2], f[2])
  IN  (IF f[1] < 0 THEN <<"-">> ELSE <<>>) \o ip
      \o (IF fr = <<>> THEN <<>> ELSE <<".">> \o fr)

\* luaO_tostring's buffer: the text of the number o; a float that looks
\* like an integer gets ".0" appended
tostringbuff(o) ==
  IF o.tt = LUA_TNUMINT THEN lua_integer2str(o.v)
  ELSE LET b == lua_number2str(o.v)
       IN  IF \A i \in 1..Len(b) : b[i] = "-" \/ lisdigit(b[i])
           THEN b \o <<".", "0">> ELSE b

(***************************************************************************)
(* The conversions as a state machine: an integer is written as text by    *)
(* luaO_tostring and the text read back by luaO_str2num; a text is read by *)
(* luaO_str2num.                                                           *)
(***************************************************************************)
RECURSIVE SeqsUpTo(_, _)
SeqsUpTo(S, n) ==
  IF n = 0 THEN {<<>>}
  ELSE LET T == SeqsUpTo(S, n - 1)
       IN  T \cup {Append(t, c) : t \in {u \in T : Len(u) = n - 1}, c \in S}

TextChars == {" ", "-", "+", "0", "1", "9", ".", "x", "f"}
Texts == SeqsUpTo(TextChars, MaxTextLen)
DigitSet == {DigitChars[i] : i \in 1..10}
DigitStrings == SeqsUpTo(DigitSet, MaxDigits) \ {<<>>}
\* decimal numerals: optional space, optional sign, digits, optional space
Numerals ==
  {w1 \o sg \o d \o w2 : w1 \in {<<>>, <<" ">>}, sg \in {<<>>, <<"-">>, <<"+">>},
                         d \in DigitStrings, w2 \in {<<>>, <<" ">>}}

NoRes == [sz |-> 0, o |-> setnilvalue]

\* the conversions at rest, in the specifications of the other subsystems
NumIdle == n_pc = "idle" /\ n_val = <<>> /\ n_txt = <<>> /\ n_res = NoRes

NumInit ==
  /\ n_res = NoRes
  /\ \/ n_pc = "int" /\ n_val \in {<<i>> : i \in IntRange} /\ n_txt = <<>>
     \/ n_pc = "text" /\ n_val = <<>> /\ n_txt \in Texts \cup Numerals

\* luaO_tostring on an integer value: the text handed to luaS_newlstr
NumToString ==
  /\ n_pc = "int"
  /\ n_txt' = tostringbuff(setivalue(n_val[1]))
  /\ n_pc' = "text"
  /\ UNCHANGED <<n_val, n_res, notnum>>

Str2Num ==
  /\ n_pc = "text"
  /\ n_res' = luaO_str2num(n_txt)
  /\ n_pc' = "done"
  /\ UNCHANGED <<n_val, n_txt, notnum>>

NumNext == NumToString \/ Str2Num

(***************************************************************************)
(* The mathematical reading of a decimal numeral, for the claims.          *)
(***************************************************************************)
RECURSIVE DigitsValue(_)
DigitsValue(d) ==
  IF d = <<>> THEN 0
  ELSE 10 * DigitsValue(SubSeq(d, 1, Len(d) - 1)) + luaO_hexavalue(d[Len(d)])

Strip(s) == SelectSeq(s, LAMBDA c : c # " ")
\* s is spaces, an optional sign, one or more decimal digits, spaces
IsDecNumeral(s) ==
  LET t == Strip(s)
      d == IF t # <<>> /\ t[1] \in {"-", "+"} THEN Tail(t) ELSE t
  IN  /\ d # <<>>
      /\ \A i \in 1..Len(d) : d[i] \in DigitSet
      /\ \E a \in 0..Len(s) :
           /\ a + Len(t) <= Len(s)
           /\ SubSeq(s, a + 1, a + Len(t)) = t
NumeralValue(s) ==
  LET t == Strip(s)
  IN  IF t[1] = "-" THEN 0 - DigitsValue(Tail(t))
      ELSE IF t[1] = "+" THEN DigitsValue(Tail(t))
      ELSE DigitsValue(t)

\* C9: an integer written by luaO_tostring and read back by luaO_str2num
\* gives the text's length plus one and the same integer, tagged integer.
C9_IntStringRoundTrip ==
  (n_pc = "done" /\ n_val # <<>>) =>
     /\ n_res.sz = Len(n_txt) + 1
     /\ n_res.o = [tt |-> LUA_TNUMINT, v |-> n_val[1]]

C9_Witness ==
  /\ n_pc = "done"
  /\ n_val = <<LUA_MININTEGER>>
  /\ n_res.o = [tt |-> LUA_TNUMINT, v |-> LUA_MININTEGER]

\* C10: a decimal numeral is read as an integer exactly when its value is
\* in [LUA_MININTEGER, LUA_MAXINTEGER], then as that value (never a wrapped
\* one); outside the range luaO_str2num yields a float.
C10_IntFirstFloatOnOverflow ==
  (n_pc = "done" /\ IsDecNumeral(n_txt)) =>
     /\ (n_res.o.tt = LUA_TNUMINT) <=> (NumeralValue(n_txt) \in IntRange)
     /\ (n_res.o.tt = LUA_TNUMINT) => (n_res.o.v = NumeralValue(n_txt))
     /\ (NumeralValue(n_txt) \notin IntRange) =>
           (n_res.o.tt = LUA_TNUMFLT /\ n_res.sz = Len(n_txt) + 1)

C10_Witness ==
  /\ n_pc = "done"
  /\ IsDecNumeral(n_txt)
  /\ NumeralValue(n_txt) = LUA_MININTEGER - 1
  /\ n_res.o.tt = LUA_TNUMFLT

(***************************************************************************)
(* luaM_realloc_ (lmem.c).  The allocator g->frealloc is external: it may  *)
(* return NULL only for a request that grows the block.  luaC_fullgc is    *)
(* the collector's full cycle: it changes GCdebt and, unless run in        *)
(* emergency mode, may call finalizers.                                    *)
(***************************************************************************)
NULL == 0
BlockIds == 1..MaxBlocks
Sizes == 1..MaxSize
NoCall == [called |-> FALSE]

\* size_t realosize = (block) ? osize : 0
realosize_raw(block, osize) == osize
realosize(block, osize) == IF block # NULL THEN osize ELSE 0

\* is the emergency collection run after the first attempt returned NULL?
realloc_gc_always(failed, nsize, version) == failed /\ nsize > 0
realloc_gc(failed, nsize, version) == failed /\ nsize > 0 /\ version # 0

\* is LUA_ERRMEM thrown?  (newblock == NULL after the last attempt made)
realloc_throws_first(first_null, last_null, nsize) == first_null /\ nsize > 0
realloc_throws(first_null, last_null, nsize) == last_null /\ nsize > 0

\* luaC_fullgc(L, isemergency): the finalizers it may call
fullgc_finalizers(isemergency) == IF isemergency = 1 THEN {0} ELSE {0, 1}

\* One call luaM_realloc_(L, block, osize, nsize).  fail1/fail2: whether the
\* allocator is out of memory at the first/second attempt; freed: the bytes
\* the emergency collection takes off GCdebt; fin: the finalizers it calls.
luaM_realloc_(block, osize, nsize, fail1, fail2, freed, fin) ==
  LET ros == realosize(block, osize)
      null1 == IF nsize = 0 THEN TRUE ELSE (fail1 /\ nsize > ros)
      gc == realloc_gc(null1, nsize, g_version)
      null2 == IF gc THEN (fail2 /\ nsize > ros) ELSE null1
      throws == realloc_throws(null1, null2, nsize)
      debt0 == IF gc THEN GCdebt - freed ELSE GCdebt
      newid == CHOOSE b \in BlockIds : b \notin DOMAIN blocks
      newblock == IF null2 THEN NULL ELSE IF block # NULL THEN block ELSE newid
  IN  /\ m_last' = [called |-> TRUE, block |-> block, osize |-> osize,
                    nsize |-> nsize, version |-> g_version,
                    frealloc |-> IF gc THEN <<null1, null2>> ELSE <<null1>>,
                    fullgc |-> IF gc THEN <<1>> ELSE <<>>,
                    finalizers |-> IF gc THEN fin ELSE 0,
                    status |-> IF throws THEN LUA_ERRMEM ELSE LUA_OK,
                    newblock |-> IF throws THEN NULL ELSE newblock,
                    debt0 |-> debt0]
      /\ GCdebt' = IF throws THEN debt0 ELSE (debt0 + nsize) - ros
      /\ GCdebt' \in (0 - MaxDebt)..MaxDebt
      /\ blocks' =
           IF throws THEN blocks
           ELSE IF nsize = 0
                THEN [b \in DOMAIN blocks \ {block} |-> blocks[b]]
                ELSE [b \in DOMAIN blocks \cup {newblock} |->
                        IF b = newblock THEN nsize ELSE blocks[b]]
      /\ UNCHANGED <<g_version, notmem>>

\* lua_newstate: no debt, no block, the state not yet built
MemInit ==
  /\ GCdebt = 0
  /\ g_version = 0
  /\ blocks = <<>>
  /\ m_last = NoCall

\* luaM_malloc / luaM_newobject: a new block; luaM_newobject passes the
\* object's type tag in the place of the old size
MemNew ==
  \E tag \in {0, LUA_TSTRING, LUA_TTABLE}, nsize \in Sizes,
     fail1, fail2 \in BOOLEAN, freed \in 0..MaxFreed :
    /\ Cardinality(DOMAIN blocks) < MaxBlocks
    /\ \E fin \in fullgc_finalizers(1) :
         luaM_realloc_(NULL, tag, nsize, fail1, fail2, freed, fin)

\* luaM_reallocv and the like: an existing block grows or shrinks
MemResize ==
  \E b \in DOMAIN blocks, nsize \in Sizes,
     fail1, fail2 \in BOOLEAN, freed \in 0..MaxFreed :
    \E fin \in fullgc_finalizers(1) :
      luaM_realloc_(b, blocks[b], nsize, fail1, fail2, freed, fin)

\* luaM_free / luaM_freemem / luaM_freearray
MemFree ==
  \E b \in DOMAIN blocks :
    luaM_realloc_(b, blocks[b], 0, FALSE, FALSE, 0, 0)

\* f_luaopen (lstate.c) ends the construction of the state: g->version is set
MemStateBuilt ==
  /\ g_version = 0
  /\ g_version' = 1
  /\ UNCHANGED <<GCdebt, blocks, m_last, notmem>>

MemNext == MemNew \/ MemResize \/ MemFree \/ MemStateBuilt

(***************************************************************************)
(* The string table (lstring.c).  The collector's colours are those of     *)
(* lgc.h: bit 0 and bit 1 are the two whites, bit 2 is black, no bit gray. *)
(***************************************************************************)
LUAI_MAXSHORTLEN == 40
MAX_INT == Pow(2, MaxLogBuckets + 1) - 1
MINSTRTABSIZE == Pow(2, MinLogBuckets)
\* "not enough memory"
MEMERRMSG == <<110, 111, 116, 32, 101, 110, 111, 117, 103, 104, 32,
               109, 101, 109, 111, 114, 121>>

WHITEBITS == 3
BLACK == 4
GRAY == 0
otherwhite(cw) == WHITEBITS - cw
iswhite(m) == m \in {1, 2}
\* isdead(g, o): o carries the white that is not the current one
isdead(cw, m) == m = otherwhite(cw)
\* changewhite(o): marked ^= WHITEBITS, on a white object
changewhite(m) == WHITEBITS - m

HMod == Pow(2, HashBits)
RECURSIVE BitXor(_, _, _)
BitXor(a, b, n) ==
  IF n = 0 THEN 0
  ELSE ((a + b) % 2) + 2 * BitXor(a \div 2, b \div 2, n - 1)

\* lmod(s, size), size a power of 2: s & (size - 1)
lmod(s, size) == s % size

\* the loop of luaS_hash: from the last byte down, in steps of 'step'
RECURSIVE hashloop(_, _, _, _)
hashloop(str, l, step, h) ==
  IF l >= step
  THEN hashloop(str, l - step, step,
                BitXor(h, (((h * 32) % HMod) + (h \div 4) + str[l]) % HMod,
                       HashBits))
  ELSE h

\* the bytes the loop reads: str[l - 1] of C is the l-th byte
RECURSIVE hashloop_reads(_, _)
hashloop_reads(l, step) ==
  IF l >= step THEN {l} \cup hashloop_reads(l - step, step) ELSE {}

LUAI_HASHLIMIT == 5
\* size_t step = (l >> LUAI_HASHLIMIT) + 1
hash_step_one(l) == 1
hash_step(l) == (l \div Pow(2, LUAI_HASHLIMIT)) + 1
luaS_hash(str, l, seed) ==
  hashloop(str, l, hash_step(l), BitXor(seed, l % HMod, HashBits))

\* the view of the string subsystem that the operators below transform
StrState == [hash |-> strt_hash, size |-> strt_size, nuse |-> strt_nuse,
             cw |-> g_currentwhite, gcstate |-> g_gcstate]

\* the linked objects, by their place, and the object at a place
Linked(tbl) == UNION {{<<i, j>> : j \in 1..Len(tbl[i])} : i \in 1..Len(tbl)}
ObjAt(tbl, p) == tbl[p[1]][p[2]]
Collectable(tbl) == {p \in Linked(tbl) : ObjAt(tbl, p).marked # GRAY}

\* luaS_resize: "unsigned int h = lmod(p->hash, newsize)", the new position
rehash_pos_first(hash, newsize) == 0
rehash_pos(hash, newsize) == lmod(hash, newsize)

\* luaS_resize's inner loop: every node of the disconnected chain p becomes
\* the head of its bucket for newsize
RECURSIVE RehashChain(_, _, _)
RehashChain(tbl, p, newsize) ==
  IF p = <<>> THEN tbl
  ELSE RehashChain([tbl EXCEPT ![rehash_pos(Head(p).hash, newsize) + 1] =
                                  <<Head(p)>> \o @],
                   Tail(p), newsize)

\* luaS_resize's outer loop over the buckets i .. size - 1 of the old size
RECURSIVE RehashFrom(_, _, _, _)
RehashFrom(tbl, i, size, newsize) ==
  IF i >= size THEN tbl
  ELSE RehashFrom(RehashChain([tbl EXCEPT ![i + 1] = <<>>], tbl[i + 1],
                              newsize),
                  i + 1, size, newsize)

\* luaS_resize: the bucket array after the rehash loop, before it is shrunk
resize_rehashed(st, newsize) ==
  RehashFrom(IF newsize > st.size
             THEN st.hash \o [i \in 1..(newsize - st.size) |-> <<>>]
             ELSE st.hash,
             0, st.size, newsize)

\* luaS_resize(L, newsize) once its reallocation has succeeded
luaS_resize_norehash(st, newsize) ==
  [st EXCEPT !.hash = IF newsize < st.size THEN SubSeq(st.hash, 1, newsize)
                      ELSE st.hash \o [i \in 1..(newsize - st.size) |-> <<>>],
             !.size = newsize]
luaS_resize(st, newsize) ==
  [st EXCEPT !.hash = IF newsize < st.size
                      THEN SubSeq(resize_rehashed(st, newsize), 1, newsize)
                      ELSE resize_rehashed(st, newsize),
             !.size = newsize]

\* luaM_reallocvector(L, tb->hash, tb->size, newsize, TString *) when
\* luaM_reallocv raises: the assignment to tb->hash is not reached and
\* luaS_resize is left before it writes tb->size
reallocvector_raised_sized(st, newsize) == [st EXCEPT !.size = newsize]
reallocvector_raised(st, newsize) == st

\* luaS_remove(L, ts), ts the j-th object of the chain of its hash
luaS_remove_head(st, ts) ==
  LET b == lmod(ObjAt(st.hash, ts).hash, st.size) + 1
  IN  [st EXCEPT !.hash[b] = Tail(@), !.nuse = @ - 1]
luaS_remove(st, ts) ==
  LET b == lmod(ObjAt(st.hash, ts).hash, st.size) + 1
      j == ts[2]
  IN  [st EXCEPT !.hash[b] = SubSeq(@, 1, j - 1) \o SubSeq(@, j + 1, Len(@)),
                 !.nuse = @ - 1]

\* freeobj (lgc.c) on each short string of D, the last of a chain first
RECURSIVE FreeAll(_, _)
FreeAll(st, D) ==
  IF D = {} THEN st
  ELSE LET ts == CHOOSE x \in D : \A y \in D : y[1] = x[1] => y[2] <= x[2]
       IN  FreeAll(luaS_remove(st, ts), D \ {ts})

\* luaC_fullgc (lgc.c): a complete cycle.  The dead strings and the
\* unreachable ones, C, are freed; the current white flips; every other
\* collectable object ends with the new current white and the collector
\* is back in its pause.
luaC_fullgc(st, C) ==
  LET dead == {p \in Linked(st.hash) : isdead(st.cw, ObjAt(st.hash, p).marked)}
      f == FreeAll(st, dead \cup (C \cap Collectable(st.hash)))
      cw2 == otherwhite(st.cw)
  IN  [f EXCEPT !.cw = cw2, !.gcstate = "pause",
                !.hash = [i \in 1..Len(f.hash) |->
                           [j \in 1..Len(f.hash[i]) |->
                              IF f.hash[i][j].marked = GRAY THEN f.hash[i][j]
                              ELSE [f.hash[i][j] EXCEPT !.marked = cw2]]]]

\* the search of internshrstr in one chain: the place in the chain of the
\* first string of length l with the bytes of str, or NULL
FindInChain_skiphead(chain, str) ==
  IF \E j \in 2..Len(chain) : Len(str) = chain[j].shrlen /\ str = chain[j].bytes
  THEN CHOOSE j \in 2..Len(chain) :
         /\ Len(str) = chain[j].shrlen /\ str = chain[j].bytes
         /\ \A k \in 2..(j - 1) : ~(Len(str) = chain[k].shrlen /\ str = chain[k].bytes)
  ELSE NULL
FindInChain(chain, str) ==
  IF \E j \in 1..Len(chain) : Len(str) = chain[j].shrlen /\ str = chain[j].bytes
  THEN CHOOSE j \in 1..Len(chain) :
         /\ Len(str) = chain[j].shrlen /\ str = chain[j].bytes
         /\ \A k \in 1..(j - 1) : ~(Len(str) = chain[k].shrlen /\ str = chain[k].bytes)
  ELSE NULL

\* createstrobj for a short string: a new object, with the current white
createstrobj(str, tag, h, cw) ==
  [tt |-> tag, bytes |-> str, shrlen |-> Len(str), hash |-> h, extra |-> 0,
   marked |-> cw]

\* the strings the model creates: the first MaxInputs strings over "ab",
\* shortest first
RECURSIVE StrOf(_)
StrOf(k) == IF k = 0 THEN <<>>
            ELSE Append(StrOf((k - 1) \div 2), 97 + ((k - 1) % 2))
StrInputs == {StrOf(k) : k \in 0..(MaxInputs - 1)}

\* how one allocation inside an operation goes: at once, after an emergency
\* collection, or not at all (LUA_ERRMEM)
AllocOutcomes == {"ok", "gc_ok", "gc_fail"}
AfterAlloc(st, outcome, C) == IF outcome = "ok" THEN st ELSE luaC_fullgc(st, C)

\* internshrstr on a hit: "if (isdead(g, ts)) changewhite(ts)", on the
\* mark m of ts
resurrect_never(cw, m) == m
resurrect(cw, m) == IF isdead(cw, m) THEN changewhite(m) ELSE m

\* internshrstr on a miss: is the table doubled before the string is linked?
NeedsGrow_never(st) == FALSE
NeedsGrow(st) == st.nuse >= st.size /\ st.size <= MAX_INT \div 2

\* internshrstr(L, str, l) on the state st.  rz, cr: how the allocations of
\* luaS_resize and of createstrobj go; C: the strings an emergency
\* collection finds unreachable.  Yields the new state and what happened.
internshrstr(st, str, rz, cr, C) ==
  LET h == luaS_hash(str, Len(str), g_seed)
      list == lmod(h, st.size) + 1
      found == FindInChain(st.hash[list], str)
      grow == NeedsGrow(st)
      st1 == IF grow THEN AfterAlloc(st, rz, C) ELSE st
      st2 == IF grow THEN luaS_resize(st1, st1.size * 2) ELSE st
      st3 == AfterAlloc(st2, cr, C)
      list3 == lmod(h, st3.size) + 1
  IN  IF found # NULL
      THEN [st |-> [st EXCEPT !.hash[list][found].marked =
                                 resurrect(st.cw, @)],
            did |-> IF isdead(st.cw, st.hash[list][found].marked)
                    THEN "resurrected" ELSE "found",
            ts |-> <<list, found>>]
      ELSE IF grow /\ rz = "gc_fail"
      THEN [st |-> reallocvector_raised(st1, st1.size * 2),
            did |-> "errmem", ts |-> <<>>]
      ELSE IF cr = "gc_fail" THEN [st |-> st3, did |-> "errmem", ts |-> <<>>]
      ELSE [st |-> [st3 EXCEPT
                      !.hash[list3] =
                         <<createstrobj(str, LUA_TSHRSTR, h, st3.cw)>> \o @,
                      !.nuse = @ + 1],
            did |-> "created", ts |-> <<list3, 1>>]

\* what s_last holds
NoStr == [did |-> "none", ts |-> <<>>]
StrDid(did) == [did |-> did, ts |-> <<>>]

SetStrState(st) ==
  /\ strt_hash' = st.hash
  /\ strt_size' = st.size
  /\ strt_nuse' = st.nuse
  /\ g_currentwhite' = st.cw
  /\ g_gcstate' = st.gcstate

\* the state luaS_init leaves: MINSTRTABSIZE buckets and the memory-error
\* message interned and fixed (gray, never collected)
TableInit ==
  /\ LET h == luaS_hash(MEMERRMSG, Len(MEMERRMSG), g_seed)
     IN  strt_hash = [i \in 1..MINSTRTABSIZE |->
                        IF i = lmod(h, MINSTRTABSIZE) + 1
                        THEN <<createstrobj(MEMERRMSG, LUA_TSHRSTR, h, GRAY)>>
                        ELSE <<>>]
  /\ strt_size = MINSTRTABSIZE
  /\ strt_nuse = 1
  /\ g_currentwhite = 1
  /\ g_gcstate = "pause"
  /\ s_last = StrDid("init")
  /\ g_lngstrs = <<>>

\* the seed is one value in the specifications of the string table
StrInit == g_seed = 0 /\ TableInit

\* the collectable strings that a collection has not already found dead
Unswept(st) == {p \in Collectable(st.hash) :
                  ~isdead(st.cw, ObjAt(st.hash, p).marked)}
IsHit(st, str) ==
  FindInChain(st.hash[lmod(luaS_hash(str, Len(str), g_seed), st.size) + 1],
              str) # NULL

\* luaS_newlstr: "if (l <= LUAI_MAXSHORTLEN)"
isshort_below(l) == l < LUAI_MAXSHORTLEN
isshort(l) == l <= LUAI_MAXSHORTLEN

\* luaS_newlstr(L, str, l) with l <= LUAI_MAXSHORTLEN.  An outcome that no
\* allocation of the call uses is "ok", at most one allocation of a call
\* needs an emergency collection, and C is empty unless one runs.
NewShort(str, rz, cr) ==
  /\ rz # "ok" => cr = "ok"
  /\ ~NeedsGrow(StrState) => rz = "ok"
  /\ (rz # "ok" \/ cr # "ok") => ~IsHit(StrState, str)
  /\ \E C \in IF rz = "ok" /\ cr = "ok" THEN {{}}
              ELSE SUBSET Unswept(StrState) :
       LET r == internshrstr(StrState, str, rz, cr, C)
       IN  /\ r.st.nuse <= MaxStrings + 1
           /\ SetStrState(r.st)
           /\ s_last' = [did |-> r.did, ts |-> r.ts]
  /\ UNCHANGED <<g_seed, notstr>>

StrNewShort ==
  \E str \in StrInputs, rz, cr \in AllocOutcomes :
    /\ isshort(Len(str))
    /\ NewShort(str, rz, cr)

\* luaS_resize(L, newsize) for a power of 2 (checkSizes halves the table,
\* internshrstr doubles it)
StrResize ==
  \E k \in 0..MaxLogBuckets, rz \in AllocOutcomes :
    /\ Pow(2, k) # strt_size
    /\ Pow(2, k) < strt_size => rz = "ok"
    /\ \E C \in IF rz = "ok" THEN {{}} ELSE SUBSET Unswept(StrState) :
         LET st1 == AfterAlloc(StrState, rz, C)
         IN  /\ SetStrState(IF rz = "gc_fail"
                            THEN reallocvector_raised(st1, Pow(2, k))
                            ELSE luaS_resize(st1, Pow(2, k)))
             /\ s_last' = [did |-> IF rz = "ok" THEN "resized"
                                   ELSE IF rz = "gc_ok" THEN "resized_gc"
                                   ELSE "resize_errmem",
                           ts |-> <<Pow(2, k)>>]
    /\ UNCHANGED <<g_seed, notstr>>

\* the atomic phase of a cycle (lgc.c): the strings of S were reached and
\* are black, the current white flips, so every other white string is dead
GCAtomic ==
  \E S \in SUBSET Collectable(strt_hash) :
    /\ g_gcstate = "pause"
    /\ strt_hash' = [i \in 1..Len(strt_hash) |->
                      [j \in 1..Len(strt_hash[i]) |->
                         IF <<i, j>> \in S
                         THEN [strt_hash[i][j] EXCEPT !.marked = BLACK]
                         ELSE strt_hash[i][j]]]
    /\ g_currentwhite' = otherwhite(g_currentwhite)
    /\ g_gcstate' = "sweep"
    /\ s_last' = StrDid("other")
    /\ UNCHANGED <<strt_size, strt_nuse, g_seed, notstr>>

\* one step of the sweep, on the string ts: a dead string is freed (freeobj
\* calls luaS_remove), a surviving one gets the current white
GCSweepStr ==
  \E ts \in Collectable(strt_hash) :
    /\ g_gcstate = "sweep"
    /\ ObjAt(strt_hash, ts).marked # g_currentwhite
    /\ IF isdead(g_currentwhite, ObjAt(strt_hash, ts).marked)
       THEN /\ SetStrState(luaS_remove(StrState, ts))
            /\ s_last' = [did |-> "removed", ts |-> ts]
       ELSE /\ strt_hash' = [strt_hash EXCEPT
                               ![ts[1]][ts[2]].marked = g_currentwhite]
            /\ s_last' = StrDid("other")
            /\ UNCHANGED <<strt_size, strt_nuse, g_currentwhite, g_gcstate>>
    /\ UNCHANGED <<g_seed, notstr>>

\* the sweep is over: every string has the current white again
GCSweepEnd ==
  /\ g_gcstate = "sweep"
  /\ \A ts \in Collectable(strt_hash) :
        ObjAt(strt_hash, ts).marked = g_currentwhite
  /\ g_gcstate' = "pause"
  /\ s_last' = StrDid("other")
  /\ UNCHANGED <<strt_hash, strt_size, strt_nuse, g_seed, g_currentwhite,
                 notstr>>

StrNext == StrNewShort \/ StrResize \/ GCAtomic \/ GCSweepStr \/ GCSweepEnd

\* creations and removals only: nothing but internshrstr resizes the table
TabNext == StrNewShort \/ GCAtomic \/ GCSweepStr \/ GCSweepEnd

\* C1: two short strings linked in the string table are the same object
\* exactly when they have the same length and the same bytes.
C1_StringUniqueness ==
  \A a, b \in Linked(strt_hash) :
     (a = b) <=> (/\ ObjAt(strt_hash, a).shrlen = ObjAt(strt_hash, b).shrlen
                  /\ ObjAt(strt_hash, a).bytes = ObjAt(strt_hash, b).bytes)

\* a creation request has just found its string behind the head of its
\* chain, among three strings linked in a table that has been resized
C1_Witness ==
  /\ s_last.did = "found"
  /\ s_last.ts[2] > 1
  /\ strt_nuse = 3
  /\ strt_size # MINSTRTABSIZE

\* C2: when the allocator fails on a request with nsize > 0 in a fully built
\* state, one collection runs, in emergency mode and without finalizers, the
\* allocator is called once more, LUA_ERRMEM is raised exactly when that
\* second attempt fails too, and otherwise the block is returned.
C2_AllocFailureProtocol ==
  (/\ m_last.called /\ m_last.version # 0 /\ m_last.nsize > 0
   /\ m_last.frealloc[1]) =>
     /\ m_last.fullgc = <<1>>
     /\ m_last.finalizers = 0
     /\ Len(m_last.frealloc) = 2
     /\ (m_last.status = LUA_ERRMEM) <=> m_last.frealloc[2]
     /\ (~m_last.frealloc[2]) =>
           (m_last.status = LUA_OK /\ m_last.newblock # NULL)

C2_Witness ==
  /\ m_last.called /\ m_last.version # 0
  /\ m_last.frealloc = <<TRUE, FALSE>>
  /\ m_last.status = LUA_OK
  /\ m_last.newblock # NULL

\* C3 as stated: every call leaves GCdebt at its value before the update
\* plus nsize minus the old size (0 for a NULL block).
C3_EveryCallUpdatesDebt ==
  m_last.called =>
    GCdebt = (m_last.debt0 + m_last.nsize)
               - (IF m_last.block = NULL THEN 0 ELSE m_last.osize)

\* C3 amended: every call that returns (raises no memory error) leaves
\* GCdebt at its value before the update plus nsize minus the old size,
\* the old size being 0 for a NULL block whatever was passed as osize; a
\* call that raises LUA_ERRMEM does not update GCdebt.
C3_ReturningCallUpdatesDebt ==
  m_last.called =>
    /\ (m_last.status = LUA_OK) =>
          GCdebt = (m_last.debt0 + m_last.nsize)
                     - (IF m_last.block = NULL THEN 0 ELSE m_last.osize)
    /\ (m_last.status = LUA_ERRMEM) => GCdebt = m_last.debt0

C3_Witness ==
  /\ m_last.called /\ m_last.status = LUA_OK
  /\ m_last.block = NULL /\ m_last.osize = LUA_TSTRING
  /\ GCdebt = m_last.debt0 + m_last.nsize

\* C27: while the state is not fully built (g->version unset), a failed
\* allocation with nsize > 0 raises LUA_ERRMEM at once: no collection is
\* run and the allocator is not called a second time.
C27_NoRetryWhileBuilding ==
  (/\ m_last.called /\ m_last.version = 0 /\ m_last.nsize > 0
   /\ m_last.frealloc[1]) =>
     /\ m_last.fullgc = <<>>
     /\ m_last.frealloc = <<TRUE>>
     /\ m_last.status = LUA_ERRMEM
     /\ m_last.newblock = NULL
     /\ GCdebt = m_last.debt0

\* the growth of an existing block has failed in a state under construction
C27_Witness ==
  /\ m_last.called /\ m_last.version = 0
  /\ m_last.block # NULL /\ m_last.nsize > m_last.osize
  /\ m_last.frealloc[1]
  /\ m_last.status = LUA_ERRMEM

(***************************************************************************)
(* The thread's stack and the embedding API (lapi.c, lapi.h).              *)
(***************************************************************************)
LUA_MULTRET == -1
LUA_ERRRUN == 2
LUA_ERRSYNTAX == 3
LUA_MINSTACK == 20
LUAI_MAXSTACK == 1000000
EXTRA_STACK == 5
BASIC_STACK_SIZE == 2 * LUA_MINSTACK
LUA_REGISTRYINDEX == (0 - LUAI_MAXSTACK) - 1000
lua_upvalueindex(i) == LUA_REGISTRYINDEX - i

LUA_TFUNCTION == 6
LUA_TLCL == LUA_TFUNCTION + 0 * 16
LUA_TLCF == LUA_TFUNCTION + 1 * 16
LUA_TCCL == LUA_TFUNCTION + 2 * 16
\* a light C function, a C closure with its upvalues, a Lua closure
setfvalue == [tt |-> LUA_TLCF, v |-> 0]
setclCvalue(upvalue) == [tt |-> LUA_TCCL, v |-> upvalue]
setclLvalue == [tt |-> LUA_TLCL, v |-> 0]
\* the error message luaD_protectedparser leaves on the stack
ErrMsg == [tt |-> LUA_TSHRSTR, v |-> <<"e", "r", "r">>]
l_registry == [tt |-> LUA_TTABLE, v |-> 0]

L_top == Len(L_stack)
L_stack_last == L_stacksize - EXTRA_STACK
ci == L_ci[Len(L_ci)]
ci_func == L_stack[ci.func + 1]
BaseCi == [func |-> 0, top |-> 1 + LUA_MINSTACK, nresults |-> 0,
           top0 |-> 0, nargs |-> 0]
NoApi == [op |-> "none", idx |-> 0, nargs |-> 0, nresults |-> 0, ret |-> 0,
          flag |-> 0, same |-> TRUE, top0 |-> 0, citop0 |-> 0]

ispseudo(i) == i <= LUA_REGISTRYINDEX
NONVALIDVALUE == [at |-> "nilobject", o |-> 0]
StackAddr(o) == [at |-> "stack", o |-> o]

\* index2addr(L, idx): where the index points
index2addr(idx) ==
  IF idx > 0
  THEN IF ci.func + idx >= L_top THEN NONVALIDVALUE
       ELSE StackAddr(ci.func + idx)
  ELSE IF ~ispseudo(idx) THEN StackAddr(L_top + idx)
  ELSE IF idx = LUA_REGISTRYINDEX THEN [at |-> "registry", o |-> 0]
  ELSE IF ci_func.tt = LUA_TLCF THEN NONVALIDVALUE
  ELSE IF LUA_REGISTRYINDEX - idx <= Len(ci_func.v)
       THEN [at |-> "upvalue", o |-> LUA_REGISTRYINDEX - idx]
       ELSE NONVALIDVALUE

\* the value at the place index2addr gave
ValueAt(a) ==
  CASE a.at = "stack" -> L_stack[a.o + 1]
    [] a.at = "registry" -> l_registry
    [] a.at = "upvalue" -> ci_func.v[a.o]
    [] OTHER -> setnilvalue

\* the indices the api_check of index2addr accepts
AcceptableIndex(idx) ==
  IF idx > 0 THEN idx <= ci.top - (ci.func + 1)
  ELSE IF ~ispseudo(idx) THEN idx # 0 /\ 0 - idx <= L_top - (ci.func + 1)
  ELSE idx = LUA_REGISTRYINDEX \/ ci_func.tt \in {LUA_TLCF, LUA_TCCL}

lua_absindex_nobase(idx) ==
  IF idx > 0 \/ ispseudo(idx) THEN idx ELSE L_top + idx
lua_absindex(idx) ==
  IF idx > 0 \/ ispseudo(idx) THEN idx ELSE (L_top - ci.func) + idx

lua_gettop == L_top - (ci.func + 1)

\* the indices the model hands to the API
Indices == ((0 - MaxTop)..MaxTop) \cup
           {LUA_REGISTRYINDEX, lua_upvalueindex(1), lua_upvalueindex(2)}

\* the state lua_newstate leaves (lstate.c): BASIC_STACK_SIZE slots, the
\* base frame with a nil in its function slot
ApiInit ==
  /\ L_stack = <<setnilvalue>>
  /\ L_stacksize = BASIC_STACK_SIZE
  /\ L_ci = <<BaseCi>>
  /\ L_status = LUA_OK
  /\ a_last = NoApi

\* a push: the value is stored at L->top and api_incr_top checks
\* L->top <= L->ci->top after the increment
CanPush == L_status = LUA_OK /\ L_top + 1 <= ci.top /\ L_top + 1 <= MaxTop
Push(val, op) ==
  /\ CanPush
  /\ L_stack' = Append(L_stack, val)
  /\ a_last' = [NoApi EXCEPT !.op = op]
  /\ UNCHANGED <<L_stacksize, L_ci, L_status, notapi>>

lua_pushnil ==
  /\ L_status = LUA_OK
  /\ Push(setnilvalue, "push")

lua_pushvalue ==
  \E idx \in Indices :
    /\ L_status = LUA_OK
    /\ AcceptableIndex(idx)
    /\ Push(ValueAt(index2addr(idx)), "push")

\* lua_pushcclosure(L, fn, n) for n = 0 and n = 1; luaF_newCclosure may
\* raise the memory error, which nothing catches here.  The model's host
\* closes over nil only.
lua_pushcclosure ==
  \E n \in {0, 1}, mem \in {LUA_OK, LUA_ERRMEM} :
    /\ L_status = LUA_OK
    /\ IF n = 0
       THEN mem = LUA_OK /\ Push(setfvalue, "push")
       ELSE /\ n < L_top - ci.func
            /\ L_stack[L_top] = setnilvalue
            /\ IF mem = LUA_OK
               THEN /\ L_stack' = [L_stack EXCEPT
                                     ![L_top] = setclCvalue(<<L_stack[L_top]>>)]
                    /\ UNCHANGED L_status
               ELSE L_status' = mem /\ UNCHANGED L_stack
            /\ a_last' = [NoApi EXCEPT !.op = IF mem = LUA_OK THEN "push"
                                              ELSE "raise"]
            /\ UNCHANGED <<L_stacksize, L_ci, notapi>>

\* lua_load(L, ...): luaD_protectedparser (ldo.c) leaves the new Lua
\* closure, or the error message, on the stack
lua_load ==
  \E status \in {LUA_OK, LUA_ERRSYNTAX} :
    /\ Push(IF status = LUA_OK THEN setclLvalue ELSE ErrMsg, "push")

\* lua_pop(L, n): lua_settop(L, -(n)-1)
lua_pop(n) == (0 - n) - 1
\* lua_settop with a negative index: "L->top += idx+1"
settop_neg_noplus(top, idx) == top + idx
settop_neg(top, idx) == top + idx + 1
\* the indices the model hands to lua_settop: the small ones and, where
\* the frame's top matters, the first above it and the largest that the
\* check of lua_settop accepts; from a stack longer than MaxTop the model
\* only comes back
SmallTops == {idx \in Indices : ~ispseudo(idx)}
SetTopIndices ==
  SmallTops \cup {ci.top - ci.func, L_stack_last - (ci.func + 1)}
\* lua_settop(L, idx), idx one of ids
lua_settop(ids) ==
  \E idx \in ids :
    /\ L_status = LUA_OK
    /\ L_top > MaxTop => idx \in 0..MaxTop
    /\ IF idx >= 0
       THEN /\ idx <= L_stack_last - (ci.func + 1)
            /\ idx \in Indices => (ci.func + 1) + idx <= MaxTop
            /\ L_stack' = [p \in 1..((ci.func + 1) + idx) |->
                             IF p <= L_top THEN L_stack[p] ELSE setnilvalue]
       ELSE /\ 0 - (idx + 1) <= L_top - (ci.func + 1)
            /\ L_stack' = SubSeq(L_stack, 1, settop_neg(L_top, idx))
    /\ a_last' = [NoApi EXCEPT !.op = "settop", !.idx = idx, !.top0 = L_top]
    /\ UNCHANGED <<L_stacksize, L_ci, L_status, notapi>>

\* luaD_growstack(L, n) (ldo.c): the size after growing for n more slots:
\* twice the size, or the size needed if that is more
luaD_growstack(n) ==
  LET needed == L_top + n + EXTRA_STACK
      twice == IF 2 * L_stacksize > LUAI_MAXSTACK THEN LUAI_MAXSTACK
               ELSE 2 * L_stacksize
  IN  IF twice < needed THEN needed ELSE twice

\* luaD_checkstack(L, n) (ldo.h): the size once n more slots fit
luaD_checkstack(n) ==
  IF L_stack_last - L_top <= n THEN luaD_growstack(n) ELSE L_stacksize

\* the last statement of lua_checkstack: the frame's top is raised to
\* cover the n slots
checkstack_citop_never(res, citop, top, n) == citop
checkstack_citop(res, citop, top, n) ==
  IF res = 1 /\ citop < top + n THEN top + n ELSE citop

\* lua_checkstack(L, n); mem: whether the reallocation of the stack, run in
\* protected mode, succeeds
lua_checkstack ==
  \E n \in {0, L_stack_last - L_top, 2 * L_stacksize, LUAI_MAXSTACK},
     mem \in {LUA_OK, LUA_ERRMEM} :
    LET large == L_stack_last - L_top > n
        inuse == L_top + EXTRA_STACK
        res == IF large THEN 1
               ELSE IF inuse > LUAI_MAXSTACK - n THEN 0
               ELSE IF mem = LUA_OK THEN 1 ELSE 0
        grows == ~large /\ res = 1
    IN  /\ L_status = LUA_OK
        /\ L_top <= MaxTop
        /\ n >= 0
        /\ (large \/ inuse > LUAI_MAXSTACK - n) => mem = LUA_OK
        /\ grows => luaD_growstack(n) <= MaxStackSize
        /\ L_stacksize' = IF grows THEN luaD_growstack(n) ELSE L_stacksize
        /\ L_ci' = [L_ci EXCEPT ![Len(L_ci)].top =
                                   checkstack_citop(res, @, L_top, n)]
        /\ a_last' = [NoApi EXCEPT !.op = "checkstack", !.idx = n,
                                   !.ret = res, !.citop0 = ci.top]
        /\ UNCHANGED <<L_stack, L_status, notapi>>

\* lua_absindex(L, idx)
AbsIndex ==
  \E idx \in Indices :
    /\ L_status = LUA_OK
    /\ AcceptableIndex(idx)
    /\ a_last' = [NoApi EXCEPT !.op = "absindex", !.idx = idx,
                               !.ret = lua_absindex(idx)]
    /\ UNCHANGED <<L_stack, L_stacksize, L_ci, L_status, notapi>>

\* luaD_poscall (ldo.c): the results are moved down to the call slot, then
\* truncated or padded with nil to the number wanted
moveresults(results, wanted) ==
  IF wanted = LUA_MULTRET THEN results
  ELSE [i \in 1..wanted |->
          IF i <= Len(results) THEN results[i] ELSE setnilvalue]
luaD_poscall(func, results, wanted) ==
  SubSeq(L_stack, 1, func) \o moveresults(results, wanted)

\* adjustresults(L, nres), on the caller's frame
adjustresults(nres, citop, top) ==
  IF nres = LUA_MULTRET /\ citop < top THEN top ELSE citop

\* checkresults(L, na, nr)
checkresults(na, nr) == nr = LUA_MULTRET \/ ci.top - L_top >= nr - na

\* func = L->top - (nargs+1)
callk_func_below(top, nargs) == top - (nargs + 2)
callk_func(top, nargs) == top - (nargs + 1)

\* what a scripted callee may return: up to MaxTop - 1 values
ScriptResults == SeqsUpTo({setnilvalue, setclLvalue}, MaxTop - 1)

\* lua_callk(L, nargs, nresults, 0, NULL).  The value called is
\*  - not callable: luaD_call raises a run-time error;
\*  - a Lua closure: it runs to its return (or to an error) with the
\*    results rs, luaD_poscall moves them and lua_callk adjusts the frame;
\*  - a C function: luaD_precall makes its frame and the function runs, as
\*    further API calls, until CFunctionReturn.
lua_callk ==
  \E nargs \in 0..MaxTop, nresults \in LUA_MULTRET..(MaxTop - 1),
     rs \in ScriptResults, raises \in BOOLEAN :
    LET func == callk_func(L_top, nargs)
        f == L_stack[func + 1]
        returned == luaD_poscall(func, rs, nresults)
    IN  /\ L_status = LUA_OK
        /\ nargs + 1 < L_top - ci.func
        /\ checkresults(nargs, nresults)
        /\ func + nresults <= MaxTop
        /\ f.tt # LUA_TLCL => rs = <<>> /\ ~raises
        /\ CASE f.tt = LUA_TLCL /\ ~raises ->
                  /\ Len(returned) <= MaxTop
                  /\ L_stack' = returned
                  /\ L_ci' = [L_ci EXCEPT ![Len(L_ci)].top =
                                adjustresults(nresults, @, Len(returned))]
                  /\ a_last' = [NoApi EXCEPT !.op = "callk",
                                  !.nargs = nargs, !.nresults = nresults,
                                  !.ret = Len(rs), !.top0 = L_top]
                  /\ UNCHANGED <<L_stacksize, L_status>>
             [] f.tt \in {LUA_TLCF, LUA_TCCL} ->
                  /\ Len(L_ci) < MaxDepth
                  /\ luaD_checkstack(LUA_MINSTACK) <= MaxStackSize
                  /\ L_stacksize' = luaD_checkstack(LUA_MINSTACK)
                  /\ L_ci' = Append(L_ci,
                                [func |-> func, top |-> L_top + LUA_MINSTACK,
                                 nresults |-> nresults, top0 |-> L_top,
                                 nargs |-> nargs])
                  /\ a_last' = [NoApi EXCEPT !.op = "precall"]
                  /\ UNCHANGED <<L_stack, L_status>>
             [] OTHER ->
                  /\ L_status' = LUA_ERRRUN
                  /\ a_last' = [NoApi EXCEPT !.op = "raise"]
                  /\ UNCHANGED <<L_stack, L_stacksize, L_ci>>
        /\ UNCHANGED notapi

\* the C function of the current frame returns n: its n results are the
\* n values below L->top (luaD_precall checks that they are there),
\* luaD_poscall moves them and drops the frame, and lua_callk, back in the
\* caller, adjusts the caller's frame
CFunctionReturn ==
  \E n \in 0..MaxTop :
    /\ L_status = LUA_OK
    /\ Len(L_ci) > 1
    /\ n < L_top - ci.func
    /\ LET returned == luaD_poscall(ci.func,
                                    SubSeq(L_stack, L_top - n + 1, L_top),
                                    ci.nresults)
           caller == Len(L_ci) - 1
       IN  /\ L_stack' = returned
           /\ L_ci' = [SubSeq(L_ci, 1, caller) EXCEPT ![caller].top =
                         adjustresults(ci.nresults, @, Len(returned))]
           /\ a_last' = [NoApi EXCEPT !.op = "callk", !.nargs = ci.nargs,
                           !.nresults = ci.nresults, !.ret = n,
                           !.top0 = ci.top0]
    /\ UNCHANGED <<L_stacksize, L_status, notapi>>

\* reverse(L, from, to), on the slots at positions from .. to of the stack
reverse(stack, from, to) ==
  [q \in 1..Len(stack) |->
     IF from <= q /\ q <= to THEN stack[(from + to) - q] ELSE stack[q]]
\* lua_rotate: "m = (n >= 0 ? t - n : p - n - 1)", the end of the prefix
rotate_m_other(p, t, n) == IF n >= 0 THEN (p + n) - 1 ELSE t + n
rotate_m(p, t, n) == IF n >= 0 THEN t - n ELSE (p - n) - 1
\* the three reversals of lua_rotate on the segment from position p to the
\* top
Rotated(stack, p, n) ==
  LET t == Len(stack)
      m == rotate_m(p, t, n)
  IN reverse(reverse(reverse(stack, p, m), m + 1, t), p, t)
\* the checks of lua_rotate: idx is in the stack and |n| is no more than
\* the length of the segment
RotateChecks(idx, n) ==
  /\ L_status = LUA_OK
  /\ L_top <= MaxSeg + 1
  /\ AcceptableIndex(idx)
  /\ index2addr(idx).at = "stack"
  /\ (IF n >= 0 THEN n ELSE 0 - n) <= (L_top - 1) - index2addr(idx).o + 1
RotIndices == ((0 - MaxSeg)..MaxSeg) \ {0}

\* lua_rotate(L, idx, n)
lua_rotate ==
  \E idx \in RotIndices : \E n \in (0 - MaxSeg)..MaxSeg :
    /\ RotateChecks(idx, n)
    /\ L_stack' = Rotated(L_stack, index2addr(idx).o + 1, n)
    /\ a_last' = [NoApi EXCEPT !.op = "rotate", !.idx = idx, !.ret = n,
                               !.top0 = L_top]
    /\ UNCHANGED <<L_stacksize, L_ci, L_status, notapi>>

\* lua_insert(L, idx): lua_rotate(L, (idx), 1)
lua_insert ==
  \E idx \in RotIndices :
    /\ RotateChecks(idx, 1)
    /\ L_stack' = Rotated(L_stack, index2addr(idx).o + 1, 1)
    /\ a_last' = [NoApi EXCEPT !.op = "insert", !.idx = idx, !.top0 = L_top]
    /\ UNCHANGED <<L_stacksize, L_ci, L_status, notapi>>

\* lua_remove(L, idx): (lua_rotate(L, (idx), -1), lua_pop(L, 1))
lua_remove ==
  \E idx \in RotIndices :
    /\ RotateChecks(idx, 0 - 1)
    /\ L_stack' = SubSeq(Rotated(L_stack, index2addr(idx).o + 1, 0 - 1),
                         1, settop_neg(L_top, lua_pop(1)))
    /\ a_last' = [NoApi EXCEPT !.op = "remove", !.idx = idx, !.top0 = L_top]
    /\ UNCHANGED <<L_stacksize, L_ci, L_status, notapi>>

\* the host rotates, inserts and removes
RotNext == lua_rotate \/ lua_insert \/ lua_remove

\* a new state on whose stack the host has pushed the integers 1 .. n
RotInit ==
  \E n \in 1..MaxSeg :
    /\ L_stack = <<setnilvalue>> \o [i \in 1..n |-> setivalue(i)]
    /\ L_stacksize = BASIC_STACK_SIZE
    /\ L_ci = <<BaseCi>>
    /\ L_status = LUA_OK
    /\ a_last = NoApi

\* lua_copy(L, fromidx, toidx) with toidx a slot of the stack: the slot
\* gets the value and no barrier is due
lua_copy_slot ==
  \E fromidx \in Indices : \E toidx \in Indices :
    /\ L_status = LUA_OK
    /\ L_top <= MaxTop
    /\ AcceptableIndex(fromidx) /\ AcceptableIndex(toidx)
    /\ index2addr(toidx).at = "stack"
    /\ L_stack' = [L_stack EXCEPT ![index2addr(toidx).o + 1] =
                                     ValueAt(index2addr(fromidx))]
    /\ a_last' = [NoApi EXCEPT !.op = "copy", !.idx = toidx, !.top0 = L_top]
    /\ UNCHANGED <<L_stacksize, L_ci, L_status, notapi>>

ThrIdle == T_stack = <<>>
\* the second thread is new (lua_newthread, lstate.c): a nil in the
\* function slot of its base frame
ThrInit == T_stack = <<setnilvalue>>
\* lua_xmove: "setobj2s(to, to->top, from->top + i); to->top++" for i from
\* 0 to n - 1, after from->top -= n: the values that arrive, in order
xmove_moved_reversed(from, n) ==
  [i \in 1..n |-> from[(Len(from) + 1) - i]]
xmove_moved(from, n) == [i \in 1..n |-> from[(Len(from) - n) + i]]
\* lua_xmove(from, to, n) between the thread and the second thread, either
\* way, or with from = to
lua_xmove ==
  \E dir \in 0..2 : \E n \in 0..MaxTop :
    /\ L_status = LUA_OK
    /\ L_top <= MaxTop
    /\ CASE dir = 0 -> UNCHANGED <<L_stack, T_stack>>
         [] dir = 1 ->
              /\ n < L_top - ci.func
              /\ BaseCi.top - Len(T_stack) >= n
              /\ Len(T_stack) + n <= MaxTop
              /\ L_stack' = SubSeq(L_stack, 1, L_top - n)
              /\ T_stack' = T_stack \o xmove_moved(L_stack, n)
         [] dir = 2 ->
              /\ n < Len(T_stack) - BaseCi.func
              /\ ci.top - L_top >= n
              /\ L_top + n <= MaxTop
              /\ T_stack' = SubSeq(T_stack, 1, Len(T_stack) - n)
              /\ L_stack' = L_stack \o xmove_moved(T_stack, n)
    /\ a_last' = [NoApi EXCEPT !.op = "xmove", !.idx = n, !.flag = dir,
                               !.top0 = L_top]
    /\ UNCHANGED <<L_stacksize, L_ci, L_status, notapithr>>

\* the host pushes values and moves them between the two threads
XmoveNext == lua_pushnil \/ lua_load \/ lua_xmove

\* the host shapes the stacks of two threads
ThrNext ==
  \/ lua_pushnil
  \/ lua_pushvalue
  \/ lua_settop(SetTopIndices)
  \/ lua_rotate
  \/ lua_copy_slot
  \/ lua_checkstack
  \/ lua_xmove

\* the host shapes the stack, converts indices and calls
ApiNext ==
  \/ lua_pushnil
  \/ lua_pushvalue
  \/ lua_pushcclosure
  \/ lua_load
  \/ lua_settop(SmallTops)
  \/ AbsIndex
  \/ lua_callk
  \/ CFunctionReturn

\* the host shapes the stack of one frame and reserves room in it
StkNext ==
  \/ lua_pushnil
  \/ lua_pushvalue
  \/ lua_pushcclosure
  \/ lua_load
  \/ lua_settop(SmallTops)
  \/ lua_checkstack

\* a new state, or a light C function that the host called with no
\* argument has just started
StkInit ==
  \/ ApiInit
  \/ /\ L_stack = <<setnilvalue, setfvalue>>
     /\ L_stacksize = BASIC_STACK_SIZE
     /\ L_ci = <<BaseCi, [func |-> 1, top |-> 2 + LUA_MINSTACK,
                          nresults |-> LUA_MULTRET, top0 |-> 2, nargs |-> 0]>>
     /\ L_status = LUA_OK
     /\ a_last = [NoApi EXCEPT !.op = "precall"]

\* C34: lua_settop(idx) with idx >= 0 makes lua_gettop return idx, sets the
\* slots old top + 1 .. idx to nil and leaves the slots 1 .. min(old top,
\* idx) as they were; with idx < 0 the top becomes old top + idx + 1, so
\* lua_pop(n) removes exactly the top n values and lua_settop(-1) changes
\* nothing
C34_SetTop ==
  [][a_last'.op = "settop" =>
       LET idx == a_last'.idx
           base == ci.func + 1
           old == lua_gettop
           new == Len(L_stack') - base
           kept == IF old < new THEN old ELSE new
       IN /\ L_ci' = L_ci
          /\ \A i \in 1..kept : L_stack'[base + i] = L_stack[base + i]
          /\ idx >= 0 =>
               /\ new = idx
               /\ \A i \in (old + 1)..idx : L_stack'[base + i] = setnilvalue
          /\ idx < 0 => new = old + idx + 1
          /\ \A n \in 0..old :
               idx = lua_pop(n) => L_stack' = SubSeq(L_stack, 1, L_top - n)
          /\ idx = 0 - 1 => L_stack' = L_stack]_vars

\* lua_settop(2) has raised the top of a frame from one value to two: the
\* value is kept and the new slot is nil
C34_Witness ==
  /\ a_last.op = "settop" /\ a_last.idx = 2
  /\ a_last.top0 = L_top - 1
  /\ L_stack[L_top] = setnilvalue
  /\ L_stack[L_top - 1] # setnilvalue

\* the position in L_stack of the slot that a stack index names
SlotOf(idx) == IF idx > 0 THEN (ci.func + 1) + idx ELSE (L_top + 1) + idx

\* C33: lua_rotate(idx, n), with |n| no more than the length len of the
\* segment from idx to the top, moves the element at offset i of the
\* segment to offset (i + n) mod len and leaves the top and every slot
\* below idx as they were; lua_insert(idx) puts the old top value at idx
\* and shifts the values from idx up by one, and lua_remove(idx) deletes
\* the value at idx and shifts the values above it down by one
C33_Rotate ==
  [][LET p == SlotOf(a_last'.idx)
         n == a_last'.ret
         len == (L_top - p) + 1
     IN /\ a_last'.op = "rotate" =>
             /\ Len(L_stack') = L_top
             /\ \A q \in 1..(p - 1) : L_stack'[q] = L_stack[q]
             /\ \A i \in 0..(len - 1) :
                  L_stack'[p + (((i + n) + len) % len)] = L_stack[p + i]
        /\ a_last'.op = "insert" =>
             /\ Len(L_stack') = L_top
             /\ \A q \in 1..(p - 1) : L_stack'[q] = L_stack[q]
             /\ L_stack'[p] = L_stack[L_top]
             /\ \A q \in p..(L_top - 1) : L_stack'[q + 1] = L_stack[q]
        /\ a_last'.op = "remove" =>
             L_stack' = SubSeq(L_stack, 1, p - 1)
                          \o SubSeq(L_stack, p + 1, L_top)]_vars

\* lua_rotate(2, -1) on the stack 1 2 3 4: the value 2, the bottom of the
\* segment, is now at the top, and 1 is where it was
C33_Witness ==
  /\ a_last.op = "rotate" /\ a_last.idx = 2 /\ a_last.ret = 0 - 1
  /\ L_stack = <<setnilvalue, setivalue(1), setivalue(3), setivalue(4),
                 setivalue(2)>>

\* C35: lua_xmove(from, to, n) between two distinct threads removes the top
\* n values of from and appends them to to in the same order, and leaves
\* every other slot of both stacks as it was; with from = to it changes
\* nothing
C35_XMove ==
  [][a_last'.op = "xmove" =>
       LET n == a_last'.idx
       IN CASE a_last'.flag = 1 ->
                 /\ L_stack' = SubSeq(L_stack, 1, L_top - n)
                 /\ T_stack' = T_stack \o SubSeq(L_stack, (L_top - n) + 1, L_top)
            [] a_last'.flag = 2 ->
                 /\ T_stack' = SubSeq(T_stack, 1, Len(T_stack) - n)
                 /\ L_stack' = L_stack \o SubSeq(T_stack,
                                  (Len(T_stack) - n) + 1, Len(T_stack))
            [] OTHER -> L_stack' = L_stack /\ T_stack' = T_stack]_vars

\* two different values have moved to the second thread in one call and
\* nothing else is left in the frame they came from
C35_Witness ==
  /\ a_last.op = "xmove" /\ a_last.idx = 2 /\ a_last.flag = 1
  /\ Len(T_stack) = 3 /\ T_stack[2] # T_stack[3]
  /\ L_top = a_last.top0 - 2

\* C36: after any sequence of pushes, lua_settop, lua_pop, lua_rotate,
\* lua_copy, lua_pushvalue, lua_checkstack and lua_xmove whose checks pass,
\* the top of the stack is above the function slot of the current frame
\* and no higher than the frame's top, which is no higher than the limit
\* of the allocated stack
C36_TopWithinFrame ==
  /\ L_top > ci.func
  /\ L_top <= ci.top
  /\ ci.top <= L_stack_last
  /\ Len(T_stack) > BaseCi.func
  /\ Len(T_stack) <= BaseCi.top

\* C4: a lua_callk(nargs, nresults) with nresults >= 0 that returns
\* normally leaves L->top at top_before - nargs - 1 + nresults, whether the
\* callee is a Lua function or a C function.
C4_StackBalance ==
  (a_last.op = "callk" /\ a_last.nresults >= 0) =>
     L_top = a_last.top0 - a_last.nargs - 1 + a_last.nresults

\* a C function called with one argument and two results wanted returned
\* none: both results are the nil padding, in a frame that is not the base
C4_Witness ==
  /\ a_last.op = "callk" /\ a_last.nargs = 1 /\ a_last.nresults = 2
  /\ a_last.ret = 0
  /\ L_stack[L_top] = setnilvalue
  /\ L_top = a_last.top0

\* C5: after lua_checkstack(n) returns 1, ci->top >= L->top + n and the
\* allocated stack (L->stacksize slots, the EXTRA_STACK reserve included)
\* has more than n free slots, at least n of them below L->stack_last, so
\* the next n pushes pass the check of api_incr_top; lua_checkstack never
\* lowers ci->top.
C5_CheckStackCapacity ==
  a_last.op = "checkstack" =>
     /\ ci.top >= a_last.citop0
     /\ a_last.ret = 1 => /\ ci.top >= L_top + a_last.idx
                          /\ L_stacksize - L_top > a_last.idx
                          /\ L_stack_last - L_top >= a_last.idx

\* lua_checkstack has grown the stack and raised the frame's top
C5_Witness ==
  /\ a_last.op = "checkstack" /\ a_last.ret = 1
  /\ L_stacksize > BASIC_STACK_SIZE
  /\ ci.top > a_last.citop0
  /\ ci.top = L_top + a_last.idx

\* C6: in a frame holding n values, index i in 1..n is the i-th slot above
\* the function slot, index -k (k in 1..n) is the slot of index n - k + 1,
\* lua_absindex maps -k to n - k + 1 and leaves positive indices and
\* pseudo-indices as they are, so it is idempotent.
C6_IndexConventions ==
  LET n == lua_gettop
  IN  /\ \A i \in 1..n : index2addr(i) = StackAddr(ci.func + i)
      /\ \A k \in 1..n : /\ index2addr(0 - k) = index2addr(n - k + 1)
                         /\ lua_absindex(0 - k) = n - k + 1
      /\ \A idx \in Indices :
           /\ (idx > 0 \/ ispseudo(idx)) => lua_absindex(idx) = idx
           /\ idx # 0 /\ 0 - idx <= n =>
                lua_absindex(lua_absindex(idx)) = lua_absindex(idx)
      /\ (a_last.op = "absindex" /\ a_last.idx < 0 /\ ~ispseudo(a_last.idx))
            => a_last.ret = n + a_last.idx + 1

\* lua_absindex has mapped a negative index in the frame of a C function
C6_Witness ==
  /\ a_last.op = "absindex" /\ a_last.idx < 0 /\ ~ispseudo(a_last.idx)
  /\ Len(L_ci) > 1
  /\ ci.func > 0
  /\ lua_gettop >= 1

(***************************************************************************)
(* Conversions of stack values (lapi.c; tonumber, tointeger and cvt2str    *)
(* are lvm.h's and lvm.c's).  A float is the fraction <<num, den>>.        *)
(***************************************************************************)
ttisstring(o) == o.tt \in {LUA_TSHRSTR, LUA_TLNGSTR}
ttisnumber(o) == o.tt \in {LUA_TNUMINT, LUA_TNUMFLT}
cvt2num(o) == ttisstring(o)
cvt2str(o) == ttisnumber(o)

\* l_strton (lvm.c): the number the whole string converts to, or nil;
\* r is what luaO_str2num returned for a text of length len
strton_whole(r, len) == IF r.sz = len + 1 THEN r.o ELSE setnilvalue
l_strton(o) ==
  IF cvt2num(o) THEN strton_whole(luaO_str2num(o.v), Len(o.v))
  ELSE setnilvalue

\* luaV_tonumber_ (lvm.c) on v, a number or what l_strton gave; on failure
\* n keeps whatever it held, which is junk
luaV_tonumber_(v, junk) ==
  IF v.tt = LUA_TNUMFLT THEN [isnum |-> 1, n |-> v.v]
  ELSE IF v.tt = LUA_TNUMINT THEN [isnum |-> 1, n |-> <<v.v, 1>>]
  ELSE [isnum |-> 0, n |-> junk]

\* tonumber(o, &n) (lvm.h)
tonumber(o, junk) ==
  luaV_tonumber_(IF ttisnumber(o) THEN o ELSE l_strton(o), junk)

\* luaV_tointeger (lvm.c) with mode 0 on v: a float converts only if it has
\* an exact integer value of the integer type
luaV_tointeger(v, junk) ==
  IF v.tt = LUA_TNUMINT THEN [isnum |-> 1, res |-> v.v]
  ELSE IF v.tt = LUA_TNUMFLT /\ v.v[2] = 1 /\ v.v[1] \in IntRange
  THEN [isnum |-> 1, res |-> v.v[1]]
  ELSE [isnum |-> 0, res |-> junk]

\* tointeger(o, &i) (lvm.h)
tointeger(o, junk) ==
  luaV_tointeger(IF ttisnumber(o) THEN o ELSE l_strton(o), junk)

\* lua_tonumberx(L, idx, &isnum): "if (!isnum) n = 0" on tonumber's result r
tonumberx_result_noreset(r) == r
tonumberx_result(r) ==
  IF r.isnum = 0 THEN [isnum |-> 0, n |-> <<0, 1>>] ELSE r
lua_tonumberx(idx, junk) ==
  tonumberx_result(tonumber(ValueAt(index2addr(idx)), junk))

\* lua_tointegerx(L, idx, &isnum): "if (!isnum) res = 0" on tointeger's
\* result r
tointegerx_result_resets(r) ==
  IF r.isnum = 1 THEN [isnum |-> 1, res |-> 0] ELSE r
tointegerx_result(r) ==
  IF r.isnum = 0 THEN [isnum |-> 0, res |-> 0] ELSE r
lua_tointegerx(idx, junk) ==
  tointegerx_result(tointeger(ValueAt(index2addr(idx)), junk))

\* what an uninitialised lua_Integer or lua_Number may hold
JunkInts == {0, 1, LUA_MININTEGER}
JunkFloats == {<<0, 1>>, <<1, 2>>}

\* the values the model finds on the stack, and the integers it pushes
IntInputs == {LUA_MININTEGER, 0 - 1, LUA_MAXINTEGER}
TString(s) == [tt |-> LUA_TSHRSTR, v |-> s]
ConvValues ==
  {setnilvalue, l_registry, setivalue(LUA_MAXINTEGER),
   setfltvalue(3, 2), setfltvalue(2, 1), setfltvalue(LUA_MAXINTEGER + 1, 1),
   TString(<<"1", "0">>), TString(<<"1", ".", "5">>), TString(<<"x">>)}

\* a new state on whose stack the host has pushed up to MaxConvVals values
ConvInit ==
  /\ \E vs \in SeqsUpTo(ConvValues, MaxConvVals) :
       L_stack = <<setnilvalue>> \o vs
  /\ L_stacksize = BASIC_STACK_SIZE
  /\ L_ci = <<BaseCi>>
  /\ L_status = LUA_OK
  /\ a_last = NoApi

lua_pushinteger ==
  \E n \in IntInputs :
    /\ CanPush
    /\ L_stack' = Append(L_stack, setivalue(n))
    /\ a_last' = [NoApi EXCEPT !.op = "pushinteger", !.ret = n]
    /\ UNCHANGED <<L_stacksize, L_ci, L_status, notapi>>

\* what the host sees of a conversion of the value at idx that returned r
tonumberx_last(idx, r) ==
  [NoApi EXCEPT !.op = "tonumberx", !.idx = idx, !.ret = r.n,
                !.flag = r.isnum]
tointegerx_last(idx, r) ==
  [NoApi EXCEPT !.op = "tointegerx", !.idx = idx, !.ret = r.res,
                !.flag = r.isnum]

ToNumberX ==
  \E idx \in Indices, junk \in JunkFloats :
    /\ L_status = LUA_OK
    /\ AcceptableIndex(idx)
    /\ a_last' = tonumberx_last(idx, lua_tonumberx(idx, junk))
    /\ UNCHANGED <<L_stack, L_stacksize, L_ci, L_status, notapi>>

ToIntegerX ==
  \E idx \in Indices, junk \in JunkInts :
    /\ L_status = LUA_OK
    /\ AcceptableIndex(idx)
    /\ a_last' = tointegerx_last(idx, lua_tointegerx(idx, junk))
    /\ UNCHANGED <<L_stack, L_stacksize, L_ci, L_status, notapi>>

\* lua_tolstring(L, idx, &len): a number is converted in place by
\* luaO_tostring, whose new string may not fit in memory (mem)
lua_tolstring ==
  \E idx \in Indices, mem \in {LUA_OK, LUA_ERRMEM} :
    LET a == index2addr(idx)
        o == ValueAt(a)
        s == TString(tostringbuff(o))
    IN  /\ L_status = LUA_OK
        /\ AcceptableIndex(idx)
        /\ (ttisstring(o) \/ ~cvt2str(o)) => mem = LUA_OK
        /\ IF ~ttisstring(o) /\ ~cvt2str(o)
           THEN /\ a_last' = [NoApi EXCEPT !.op = "tolstring", !.idx = idx,
                                           !.ret = NULL, !.flag = 0]
                /\ UNCHANGED <<L_stack, L_status>>
           ELSE IF ttisstring(o)
           THEN /\ a_last' = [NoApi EXCEPT !.op = "tolstring", !.idx = idx,
                                           !.ret = o.v, !.flag = Len(o.v)]
                /\ UNCHANGED <<L_stack, L_status>>
           ELSE IF mem = LUA_OK
           THEN /\ a.at = "stack"
                /\ L_stack' = [L_stack EXCEPT ![a.o + 1] = s]
                /\ a_last' = [NoApi EXCEPT !.op = "tolstring", !.idx = idx,
                                           !.ret = s.v, !.flag = Len(s.v),
                                           !.same = FALSE]
                /\ UNCHANGED L_status
           ELSE /\ L_status' = mem
                /\ a_last' = [NoApi EXCEPT !.op = "raise", !.idx = idx]
                /\ UNCHANGED L_stack
        /\ UNCHANGED <<L_stacksize, L_ci, notapi>>

\* the host reads the values of one frame
ConvNext ==
  \/ lua_pushinteger
  \/ lua_settop(SmallTops)
  \/ ToNumberX
  \/ ToIntegerX
  \/ lua_tolstring

\* the value the last call was applied to, when the call left the stack as
\* it was
LastValue == ValueAt(index2addr(a_last.idx))
\* the values of the model that do not convert to a number: those that are
\* neither numbers nor strings, and the string that is not a numeral
NotANumber(o) ==
  /\ ~ttisnumber(o)
  /\ ttisstring(o) => o = TString(<<"x">>)

\* C7: lua_tointegerx and lua_tonumberx applied to a value that does not
\* convert to a number (a non-valid index included) return 0 with the
\* is-number flag 0, and lua_tolstring applied to a value that is neither
\* a string nor a number returns NULL with length 0; no error is raised
\* and the stack is as it was.
C7_ConversionsNeverThrow ==
  /\ (a_last.op \in {"tointegerx", "tonumberx"}
        /\ (a_last.flag = 0 \/ NotANumber(LastValue)))
        => /\ a_last.ret = IF a_last.op = "tointegerx" THEN 0 ELSE <<0, 1>>
           /\ a_last.flag = 0 /\ L_status = LUA_OK /\ a_last.same
  /\ (a_last.op = "tolstring" /\ a_last.same
        /\ ~ttisstring(LastValue) /\ ~ttisnumber(LastValue))
        => a_last.ret = NULL /\ a_last.flag = 0 /\ L_status = LUA_OK

\* lua_tonumberx was applied to a string that is not a numeral
C7_Witness ==
  /\ a_last.op = "tonumberx"
  /\ LastValue = TString(<<"x">>)
  /\ a_last.flag = 0

\* C8: every lua_pushinteger(n) leaves on the top slot a value with the
\* integer variant of the number type, and a lua_tointegerx on the top slot
\* right after it gives n with the is-number flag 1.
C8_PushIntegerRoundTrip ==
  [][/\ a_last'.op = "pushinteger" =>
          L_stack'[Len(L_stack')].tt = LUA_TNUMINT
     /\ (a_last.op = "pushinteger" /\ a_last'.op = "tointegerx"
           /\ a_last'.idx \in {0 - 1, lua_gettop})
          => a_last'.ret = a_last.ret /\ a_last'.flag = 1]_vars

\* the least integer, which only lua_pushinteger puts on the stack, has
\* been read back from the top slot above other values
C8_Witness ==
  /\ a_last.op = "tointegerx" /\ a_last.idx = 0 - 1
  /\ a_last.flag = 1 /\ a_last.ret = LUA_MININTEGER
  /\ L_stack[L_top] = setivalue(LUA_MININTEGER)
  /\ L_top = MaxTop

(***************************************************************************)
(* Vectors (lmem.h, lmem.c): luaM_reallocv's overflow test and the growth  *)
(* policy of luaM_growaux_.  size_t has SizeBits bits; an int is either as *)
(* wide as size_t (MAX_INT is then MAX_SIZET \div 2) or narrower, and then *)
(* no count times the size of an element leaves size_t.                    *)
(***************************************************************************)
MINSIZEARRAY == 4
MAX_SIZET == Pow(2, SizeBits) - 1
ElemSizes == 1..MaxElemSize
\* the largest int of the build
VecMaxInt(wide) ==
  IF wide THEN MAX_SIZET \div 2 ELSE MAX_SIZET \div MaxElemSize
Limits(wide) == {l \in 1..MaxLimit : l <= VecMaxInt(wide)}
NoVec == [op |-> "none", raise |-> "none", size0 |-> 0, n |-> 0, e |-> 0,
          nsize |-> 0]

\* luaM_reallocv(L, b, on, n, e): the overflow test on a count n whose type
\* is as wide as size_t (wide) or narrower; (size_t)n + 1 wraps around
reallocv_toobig(wide, n, e) ==
  wide /\ ((n + 1) % (MAX_SIZET + 1)) > MAX_SIZET \div e
\* the byte count handed to luaM_realloc_: (n)*(e) in size_t
reallocv_nsize(n, e) == (n * e) % (MAX_SIZET + 1)

\* luaM_realloc_ on a block of osize bytes: the error it raises, if any
\* (fail1, fail2: the allocator is out of memory at the first and at the
\* second attempt)
realloc_status(osize, nsize, fail1, fail2) ==
  LET null1 == IF nsize = 0 THEN TRUE ELSE (fail1 /\ nsize > osize)
      gc == realloc_gc(null1, nsize, 1)
      null2 == IF gc THEN (fail2 /\ nsize > osize) ELSE null1
  IN  IF realloc_throws(null1, null2, nsize) THEN "errmem" ELSE "none"

\* luaM_reallocv as a whole: what it raises
luaM_reallocv(wide, on, n, e, fail1, fail2) ==
  IF reallocv_toobig(wide, n, e) THEN "toobig"
  ELSE realloc_status(reallocv_nsize(on, e), reallocv_nsize(n, e),
                      fail1, fail2)

\* luaM_growaux_: the new size it computes, once it is known that
\* *size < limit
growaux_newsize_nomin(size, limit) ==
  IF size >= limit \div 2 THEN limit ELSE size * 2
growaux_newsize(size, limit) ==
  IF size >= limit \div 2 THEN limit
  ELSE IF size * 2 < MINSIZEARRAY THEN MINSIZEARRAY ELSE size * 2

\* luaM_growaux_: the caller's *size when the function is left, by a raise
\* or by its return
growaux_size_early(raise, size, newsize) ==
  IF raise = "toomany" THEN size ELSE newsize
growaux_size(raise, size, newsize) ==
  IF raise = "none" THEN newsize ELSE size

\* luaM_growaux_(L, block, &size, size_elems, limit, what)
luaM_growaux_(size, size_elems, limit, wide, fail1, fail2) ==
  LET toomany == size >= limit \div 2 /\ size >= limit
      newsize == growaux_newsize(size, limit)
      raise == IF toomany THEN "toomany"
               ELSE luaM_reallocv(wide, size, newsize, size_elems,
                                  fail1, fail2)
  IN  [raise |-> raise, size |-> growaux_size(raise, size, newsize),
       nsize |-> IF raise \in {"none", "errmem"}
                 THEN reallocv_nsize(newsize, size_elems) ELSE 0]

\* the vector at rest, in the specifications of the other subsystems
VecIdle ==
  /\ v_size = 0 /\ v_nelems = 0 /\ v_limit = 1 /\ v_esize = 1
  /\ v_wide = FALSE /\ v_last = NoVec

\* a vector some caller holds: any capacity an int can hold, filled up to
\* any point
VecInit ==
  /\ v_wide \in BOOLEAN
  /\ v_limit \in Limits(v_wide)
  /\ v_esize \in ElemSizes
  /\ v_size \in 0..(MaxLimit + 1)
  /\ v_size <= VecMaxInt(v_wide)
  /\ v_nelems \in 0..v_size
  /\ v_last = NoVec

\* luaM_growvector(L, v, nelems, size, t, limit, e)
luaM_growvector ==
  \E fail1, fail2 \in BOOLEAN :
    LET r == luaM_growaux_(v_size, v_esize, v_limit, v_wide, fail1, fail2)
    IN  /\ fail2 => fail1
        /\ IF v_nelems + 1 > v_size
           THEN /\ v_size' = r.size
                /\ v_last' = [NoVec EXCEPT !.op = "growaux",
                                !.raise = r.raise, !.size0 = v_size,
                                !.nsize = r.nsize]
           ELSE /\ ~fail1
                /\ v_size' = v_size
                /\ v_last' = [NoVec EXCEPT !.op = "nogrow", !.size0 = v_size]
        /\ UNCHANGED <<v_nelems, v_limit, v_esize, v_wide, notvec>>

\* the caller stores an element: v[nelems++] = x
VecStore ==
  /\ v_nelems < v_size
  /\ v_nelems' = v_nelems + 1
  /\ v_last' = [NoVec EXCEPT !.op = "store", !.size0 = v_size]
  /\ UNCHANGED <<v_size, v_limit, v_esize, v_wide, notvec>>

\* luaM_newvector(L, n, t) for another vector of the same element type: the
\* count n has a type as wide as size_t, or the type int
luaM_newvector ==
  \E n \in 0..MAX_SIZET, nwide \in BOOLEAN, fail1, fail2 \in BOOLEAN :
    /\ ~nwide => n <= VecMaxInt(v_wide)
    /\ fail2 => fail1
    /\ LET raise == luaM_reallocv(nwide \/ v_wide, 0, n, v_esize, fail1, fail2)
       IN  v_last' = [NoVec EXCEPT !.op = "reallocv", !.raise = raise,
                       !.size0 = v_size, !.n = n, !.e = v_esize,
                       !.nsize = IF raise = "toobig" THEN 0
                                 ELSE reallocv_nsize(n, v_esize)]
    /\ UNCHANGED <<v_size, v_nelems, v_limit, v_esize, v_wide, notvec>>

\* a caller grows and fills one vector
VecNext == luaM_growvector \/ VecStore

\* no vector yet: the element type and the build are any
ReallocInit ==
  /\ v_wide \in BOOLEAN
  /\ v_esize \in ElemSizes
  /\ v_size = 0 /\ v_nelems = 0 /\ v_limit = 1
  /\ v_last = NoVec

\* a caller allocates vectors of any length
ReallocNext == luaM_newvector

\* C11: luaM_growaux_ raises "too many ..." exactly when the capacity is
\* at least the limit; whenever it raises, that error or one from the
\* reallocation, the caller's capacity is the one before the call.
C11_GrowAtLimitRaises ==
  v_last.op = "growaux" =>
     /\ v_last.raise = "toomany" <=> v_last.size0 >= v_limit
     /\ v_last.raise # "none" => v_size = v_last.size0

\* the reallocation of a vector below its limit ran out of memory
C11_Witness ==
  /\ v_last.op = "growaux" /\ v_last.raise = "errmem"
  /\ v_last.size0 < v_limit /\ v_last.size0 > 0
  /\ v_size = v_last.size0

\* C12: after a successful luaM_growaux_ the capacity is at most the limit,
\* for every capacity >= 0 and every limit >= 1.
C12_GrowClampedToLimit ==
  (v_last.op = "growaux" /\ v_last.raise = "none") => v_size <= v_limit

\* C13: a successful luaM_growaux_ leaves a capacity greater than the old
\* one: twice the old one, or MINSIZEARRAY if that is more, when the old one
\* is below limit/2 (the quotient of C), and the limit when the old one is
\* from limit/2 up to limit - 1; after luaM_growvector there is room for one
\* more element.
C13_GrowAmount ==
  /\ (v_last.op = "growaux" /\ v_last.raise = "none") =>
        /\ v_size > v_last.size0
        /\ v_last.size0 < v_limit \div 2 =>
              v_size = IF 2 * v_last.size0 < MINSIZEARRAY THEN MINSIZEARRAY
                       ELSE 2 * v_last.size0
        /\ (v_limit \div 2 <= v_last.size0 /\ v_last.size0 < v_limit) =>
              v_size = v_limit
  /\ (v_last.op \in {"growaux", "nogrow"} /\ v_last.raise = "none") =>
        v_nelems < v_size

\* a full vector of two elements has been doubled
C13_Witness ==
  /\ v_last.op = "growaux" /\ v_last.raise = "none"
  /\ v_last.size0 = 2 /\ v_nelems = 2 /\ v_size = 4 /\ v_limit > 4

\* C14: luaM_reallocv raises "block too big" for every count n and element
\* size e whose product does not fit in size_t.
C14_ReallocvOverflowRaises ==
  (v_last.op = "reallocv" /\ v_last.n * v_last.e > MAX_SIZET)
     => v_last.raise = "toobig"

\* C16: a creation request that hits a string marked dead and not yet
\* swept returns that object with its white flipped, so that it is not
\* dead, and changes nothing else of the table; no string that a creation
\* request returns is dead when it is returned.
C16_ResurrectionOnHit ==
  [][/\ s_last'.did = "resurrected" =>
          /\ s_last'.ts \in Linked(strt_hash)
          /\ isdead(g_currentwhite, ObjAt(strt_hash, s_last'.ts).marked)
          /\ strt_hash' = [strt_hash EXCEPT
                             ![s_last'.ts[1]][s_last'.ts[2]].marked =
                                g_currentwhite]
          /\ strt_nuse' = strt_nuse /\ strt_size' = strt_size
     /\ s_last'.did \in {"found", "resurrected", "created"} =>
          ~isdead(g_currentwhite', ObjAt(strt_hash', s_last'.ts).marked)]_vars

\* a creation request has just resurrected a string during the sweep
C16_Witness ==
  /\ s_last.did = "resurrected"
  /\ g_gcstate = "sweep"
  /\ ObjAt(strt_hash, s_last.ts).marked = g_currentwhite

C18_RemoveUnlinksOne ==
  [][s_last'.did = "removed" =>
       LET i == s_last'.ts[1]
           j == s_last'.ts[2]
       IN  /\ s_last'.ts \in Linked(strt_hash)
           /\ Len(strt_hash') = Len(strt_hash)
           /\ \A b \in (1..Len(strt_hash)) \ {i} : strt_hash'[b] = strt_hash[b]
           /\ Len(strt_hash'[i]) = Len(strt_hash[i]) - 1
           /\ \A k \in 1..(j - 1) : strt_hash'[i][k] = strt_hash[i][k]
           /\ \A k \in j..Len(strt_hash'[i]) :
                 strt_hash'[i][k] = strt_hash[i][k + 1]
           /\ strt_nuse' = strt_nuse - 1
           /\ strt_size' = strt_size]_vars

\* the sweep has just removed a string that was not the head of its chain
C18_Witness ==
  /\ s_last.did = "removed"
  /\ s_last.ts[2] > 1
  /\ Len(strt_hash[s_last.ts[1]]) >= 1

(***************************************************************************)
(* Long strings (lstring.c).  The caller keeps the long strings it         *)
(* creates, so no collection frees them.  luaS_newlstr's test against      *)
(* MAX_SIZE is never true for the lengths of the model.                    *)
(***************************************************************************)
\* a run of l bytes 'a', the k-th of which is a 'b' unless k is 0
HashString(l, k) == [i \in 1..l |-> IF i = k THEN 98 ELSE 97]

\* luaS_createlngstrobj: createstrobj with the seed as hash, then lnglen
luaS_createlngstrobj(str, seed, cw) ==
  [tt |-> LUA_TLNGSTR, bytes |-> str, lnglen |-> Len(str), hash |-> seed,
   extra |-> 0, marked |-> cw]

\* luaS_hashlongstr(ts): the hash field of ts when the call returns
hashlongstr_always(ts) == luaS_hash(ts.bytes, ts.lnglen, ts.hash)
hashlongstr(ts) ==
  IF ts.extra = 0 THEN luaS_hash(ts.bytes, ts.lnglen, ts.hash) ELSE ts.hash

\* the strings handed to luaS_newlstr: one of LUAI_MAXSHORTLEN bytes and two
\* of one byte more
LngInputs ==
  {HashString(LUAI_MAXSHORTLEN, 0), HashString(LUAI_MAXSHORTLEN + 1, 0),
   HashString(LUAI_MAXSHORTLEN + 1, 1)}

LngInit == g_seed \in {0, 1} /\ TableInit

\* the else branch of luaS_newlstr: a long string is created; cr is how the
\* allocation of createstrobj goes, C the short strings that an emergency
\* collection finds unreachable
NewLong(str, rz, cr) ==
  /\ rz = "ok"
  /\ Len(g_lngstrs) < MaxLong
  /\ \E C \in IF cr = "ok" THEN {{}} ELSE SUBSET Unswept(StrState) :
       LET st1 == AfterAlloc(StrState, cr, C)
       IN  /\ SetStrState(st1)
           /\ IF cr = "gc_fail"
              THEN /\ g_lngstrs' = g_lngstrs
                   /\ s_last' = StrDid("errmem")
              ELSE /\ g_lngstrs' =
                        Append(g_lngstrs,
                               luaS_createlngstrobj(str, g_seed, st1.cw))
                   /\ s_last' = [did |-> IF cr = "ok" THEN "lngcreated"
                                         ELSE "lngcreated_gc",
                                 ts |-> <<Len(g_lngstrs) + 1>>]
  /\ UNCHANGED <<g_seed, notlng>>

\* luaS_newlstr(L, str, l)
luaS_newlstr ==
  \E str \in LngInputs, rz, cr \in AllocOutcomes :
    IF isshort(Len(str)) THEN NewShort(str, rz, cr) ELSE NewLong(str, rz, cr)

\* luaS_hashlongstr(ts)
luaS_hashlongstr ==
  \E i \in 1..Len(g_lngstrs) :
    /\ g_lngstrs' = [g_lngstrs EXCEPT ![i].hash = hashlongstr(g_lngstrs[i]),
                                      ![i].extra = 1]
    /\ s_last' = [did |-> "hashlongstr", ts |-> <<i>>]
    /\ UNCHANGED <<strt_hash, strt_size, strt_nuse, g_seed, g_currentwhite,
                   g_gcstate, notlng>>

\* the caller drops its long strings and a collection frees them
LngRelease ==
  /\ g_lngstrs # <<>>
  /\ g_lngstrs' = <<>>
  /\ s_last' = StrDid("other")
  /\ UNCHANGED <<strt_hash, strt_size, strt_nuse, g_seed, g_currentwhite,
                 g_gcstate, notlng>>

LngNext == luaS_newlstr \/ luaS_hashlongstr \/ LngRelease

\* the strings linked in the table, chain by chain
Chains(tbl) ==
  [i \in 1..Len(tbl) |-> [j \in 1..Len(tbl[i]) |-> tbl[i][j].bytes]]
LinkedBytes(tbl) == {ObjAt(tbl, p).bytes : p \in Linked(tbl)}

\* C15 as stated: luaS_newlstr interns a string exactly when its length is
\* at most LUAI_MAXSHORTLEN; for a longer string every call creates a new
\* long string, distinct from those that exist even when the bytes are
\* equal, and leaves the chains of the table and the live count as they were.
C15_LongStringsLeaveTable ==
  [][/\ s_last'.did \in {"found", "resurrected", "created"} =>
          /\ ObjAt(strt_hash', s_last'.ts).tt = LUA_TSHRSTR
          /\ ObjAt(strt_hash', s_last'.ts).shrlen <= LUAI_MAXSHORTLEN
          /\ g_lngstrs' = g_lngstrs
     /\ s_last'.did \in {"lngcreated", "lngcreated_gc"} =>
          /\ Len(g_lngstrs') = Len(g_lngstrs) + 1
          /\ s_last'.ts = <<Len(g_lngstrs')>>
          /\ SubSeq(g_lngstrs', 1, Len(g_lngstrs)) = g_lngstrs
          /\ g_lngstrs'[Len(g_lngstrs')].tt = LUA_TLNGSTR
          /\ g_lngstrs'[Len(g_lngstrs')].lnglen > LUAI_MAXSHORTLEN
          /\ Chains(strt_hash') = Chains(strt_hash)
          /\ strt_nuse' = strt_nuse]_vars

\* C15, amended: as above, but the long string is only never linked in the
\* table: the chains and the live count are as they were when the
\* allocation succeeds at once, and when it runs an emergency collection
\* the table may only lose strings.
C15_LongStringsNeverLinked ==
  [][/\ s_last'.did \in {"found", "resurrected", "created"} =>
          /\ ObjAt(strt_hash', s_last'.ts).tt = LUA_TSHRSTR
          /\ ObjAt(strt_hash', s_last'.ts).shrlen <= LUAI_MAXSHORTLEN
          /\ g_lngstrs' = g_lngstrs
     /\ s_last'.did \in {"lngcreated", "lngcreated_gc"} =>
          /\ Len(g_lngstrs') = Len(g_lngstrs) + 1
          /\ s_last'.ts = <<Len(g_lngstrs')>>
          /\ SubSeq(g_lngstrs', 1, Len(g_lngstrs)) = g_lngstrs
          /\ g_lngstrs'[Len(g_lngstrs')].tt = LUA_TLNGSTR
          /\ g_lngstrs'[Len(g_lngstrs')].lnglen > LUAI_MAXSHORTLEN
          /\ LinkedBytes(strt_hash') \subseteq LinkedBytes(strt_hash)
          /\ strt_nuse' <= strt_nuse
          /\ strt_nuse' = Cardinality(Linked(strt_hash'))
          /\ s_last'.did = "lngcreated" =>
                /\ Chains(strt_hash') = Chains(strt_hash)
                /\ strt_nuse' = strt_nuse]_vars

\* two long strings with the same bytes exist, and the string of
\* LUAI_MAXSHORTLEN bytes is linked in the table
C15_Witness ==
  /\ s_last.did = "lngcreated"
  /\ Len(g_lngstrs) = 2
  /\ g_lngstrs[1].bytes = g_lngstrs[2].bytes
  /\ HashString(LUAI_MAXSHORTLEN, 0) \in LinkedBytes(strt_hash)

\* C20: a new long string has extra = 0 and the seed in its hash field; the
\* first luaS_hashlongstr computes the hash from the bytes and that seed
\* and sets extra; a later call leaves the hash as it is, and extra never
\* goes back to 0.
C20_LazyLongHash ==
  [][/\ \A i \in 1..Len(g_lngstrs') :
          /\ g_lngstrs'[i].extra = 0 => g_lngstrs'[i].hash = g_seed
          /\ g_lngstrs'[i].extra = 1 =>
                g_lngstrs'[i].hash =
                   luaS_hash(g_lngstrs'[i].bytes, g_lngstrs'[i].lnglen, g_seed)
     /\ s_last'.did \in {"lngcreated", "lngcreated_gc"} =>
          g_lngstrs'[Len(g_lngstrs')].extra = 0
     /\ s_last'.did = "hashlongstr" =>
          /\ g_lngstrs'[s_last'.ts[1]].extra = 1
          /\ g_lngstrs[s_last'.ts[1]].extra = 1 =>
                g_lngstrs'[s_last'.ts[1]].hash = g_lngstrs[s_last'.ts[1]].hash
     /\ s_last'.did # "other" =>
          \A i \in 1..Len(g_lngstrs) :
             g_lngstrs[i].extra = 1 => g_lngstrs'[i] = g_lngstrs[i]]_vars

\* a long string has been hashed, with a seed that is not 0, while another
\* one still has no hash
C20_Witness ==
  /\ s_last.did = "hashlongstr"
  /\ g_seed # 0
  /\ Len(g_lngstrs) = 2
  /\ g_lngstrs[s_last.ts[1]].extra = 1
  /\ \E i \in 1..2 : g_lngstrs[i].extra = 0

\* the string objects linked in the table
LinkedObjs(tbl) == {ObjAt(tbl, p) : p \in Linked(tbl)}

\* C28: after any sequence of short-string creations, removals and resizes,
\* the live count of the string table is the number of strings linked in
\* its chains, and every linked string is in the bucket whose index is its
\* hash modulo the bucket count.
C28_CountAndBuckets ==
  /\ strt_nuse = Cardinality(Linked(strt_hash))
  /\ \A p \in Linked(strt_hash) :
        p[1] = lmod(ObjAt(strt_hash, p).hash, strt_size) + 1

\* a string has just been removed from a table that was resized and still
\* links two strings
C28_Witness ==
  /\ s_last.did = "removed"
  /\ strt_size # MINSTRTABSIZE
  /\ strt_nuse = 2

\* C29 as stated: luaS_resize to a power of two, growing or shrinking, keeps
\* the set of linked strings and the live count, leaves the buckets at or
\* above the new size empty before the array is shrunk, and stores the
\* requested size as bucket count.
C29_ResizeKeepsStrings ==
  [][s_last'.did \in {"resized", "resized_gc"} =>
       /\ LinkedBytes(strt_hash') = LinkedBytes(strt_hash)
       /\ strt_nuse' = strt_nuse
       /\ strt_nuse' = Cardinality(Linked(strt_hash'))
       /\ strt_size' = s_last'.ts[1]
       /\ Len(strt_hash') = strt_size']_vars

\* C29, amended: as stated when the reallocation succeeds at once; when
\* growing the array runs an emergency collection, the resize links no new
\* string and may lose the strings that the collection frees.
C29_ResizeKeepsUncollected ==
  [][/\ s_last'.did = "resized" =>
          /\ LinkedObjs(strt_hash') = LinkedObjs(strt_hash)
          /\ strt_nuse' = strt_nuse
          /\ strt_nuse' = Cardinality(Linked(strt_hash'))
          /\ \A i \in (strt_size' + 1)..strt_size :
                resize_rehashed(StrState, strt_size')[i] = <<>>
          /\ strt_size' = s_last'.ts[1]
          /\ Len(strt_hash') = strt_size'
     /\ s_last'.did = "resized_gc" =>
          /\ strt_size' > strt_size
          /\ LinkedBytes(strt_hash') \subseteq LinkedBytes(strt_hash)
          /\ strt_nuse' <= strt_nuse
          /\ strt_nuse' = Cardinality(Linked(strt_hash'))
          /\ strt_size' = s_last'.ts[1]
          /\ Len(strt_hash') = strt_size']_vars

\* the table has just been shrunk to one bucket with three strings linked
C29_Witness ==
  /\ s_last.did = "resized"
  /\ strt_size = 1
  /\ strt_nuse = 3

HashInputs == {HashString(l, k) : l \in 0..MaxHashLen, k \in 0..MaxHashLen}
NoHash == [done |-> FALSE, step |-> 0, reads |-> {}, h |-> 0]
HashIdle == h_str = <<>> /\ h_res = NoHash

HashInit == h_str \in HashInputs /\ h_res = NoHash

\* the call of luaS_hash on h_str
HashCall ==
  [done |-> TRUE, step |-> hash_step(Len(h_str)),
   reads |-> hashloop_reads(Len(h_str), hash_step(Len(h_str))),
   h |-> luaS_hash(h_str, Len(h_str), g_seed)]

\* internshrstr hashes the bytes of a short string
HashShort ==
  /\ ~h_res.done
  /\ Len(h_str) <= LUAI_MAXSHORTLEN
  /\ h_res' = HashCall
  /\ UNCHANGED <<h_str, nothash>>

\* luaS_hashlongstr hashes the bytes of a long string
HashLong ==
  /\ ~h_res.done
  /\ Len(h_str) > LUAI_MAXSHORTLEN
  /\ h_res' = HashCall
  /\ UNCHANGED <<h_str, nothash>>

HashNext == HashShort \/ HashLong

\* C19 as stated: for a string of length 0 up to LUAI_MAXSHORTLEN luaS_hash
\* uses step 1 and reads every byte; only a longer string is hashed with
\* the step (length >> 5) + 1.
C19_ShortHashReadsAllBytes ==
  h_res.done =>
     IF Len(h_str) <= LUAI_MAXSHORTLEN
     THEN h_res.step = 1 /\ h_res.reads = 1..Len(h_str)
     ELSE h_res.step = (Len(h_str) \div 32) + 1

\* C19, amended: luaS_hash uses the step (length >> 5) + 1 for every
\* string; that is 1, and every byte is read, for lengths 0 to 31, and at
\* least 2, so that bytes are skipped, from length 32 on, the short strings
\* of 32 to LUAI_MAXSHORTLEN bytes included.
C19_HashStepByLength ==
  h_res.done =>
     /\ h_res.step = (Len(h_str) \div 32) + 1
     /\ h_res.reads = {p \in 1..Len(h_str) :
                         p >= h_res.step /\ (Len(h_str) - p) % h_res.step = 0}
     /\ Len(h_str) <= 31 => h_res.step = 1 /\ h_res.reads = 1..Len(h_str)
     /\ Len(h_str) >= 32 => h_res.step >= 2 /\ h_res.reads # 1..Len(h_str)

\* a short string of 32 bytes whose first byte is not read: it has the
\* hash of the string that differs from it in that byte
C19_Witness ==
  /\ h_res.done
  /\ h_str = HashString(32, 1)
  /\ 1 \notin h_res.reads
  /\ h_res.h = luaS_hash(HashString(32, 0), 32, g_seed)

(***************************************************************************)
(* Arithmetic (lobject.c, lapi.c).  intop, luaV_mod, luaV_div, luaV_shiftl *)
(* and the luai_num* operations are those of lvm.h, lvm.c and llimits.h.   *)
(* A float that is not finite has denominator 0: 1/0 and -1/0 are the      *)
(* infinities, 0/0 is not a number.                                        *)
(***************************************************************************)
LUA_OPADD == 0
LUA_OPSUB == 1
LUA_OPMUL == 2
LUA_OPMOD == 3
LUA_OPPOW == 4
LUA_OPDIV == 5
LUA_OPIDIV == 6
LUA_OPBAND == 7
LUA_OPBOR == 8
LUA_OPBXOR == 9
LUA_OPSHL == 10
LUA_OPSHR == 11
LUA_OPUNM == 12
LUA_OPBNOT == 13

ttisinteger(o) == o.tt = LUA_TNUMINT
ttisfloat(o) == o.tt = LUA_TNUMFLT

\* intop(op, v1, v2) of lvm.h on the unsigned result u of the operation
intop(u) == l_castU2S(u % UMod)

RECURSIVE BitAnd(_, _, _)
BitAnd(a, b, n) ==
  IF n = 0 THEN 0
  ELSE ((a % 2) * (b % 2)) + 2 * BitAnd(a \div 2, b \div 2, n - 1)

\* floor(m / n) and m - n * floor(m / n) for n # 0
FloorDiv(m, n) == IF n > 0 THEN m \div n ELSE (0 - m) \div (0 - n)
FloorMod(m, n) == m - n * FloorDiv(m, n)

\* luaV_mod, luaV_div (lvm.c): a zero divisor raises, -1 is a special case
luaV_mod(m, n) ==
  IF n = 0 THEN [raise |-> TRUE, i |-> 0]
  ELSE IF n = 0 - 1 THEN [raise |-> FALSE, i |-> 0]
  ELSE [raise |-> FALSE, i |-> FloorMod(m, n)]
luaV_div(m, n) ==
  IF n = 0 THEN [raise |-> TRUE, i |-> 0]
  ELSE IF n = 0 - 1 THEN [raise |-> FALSE, i |-> intop(0 - m)]
  ELSE [raise |-> FALSE, i |-> FloorDiv(m, n)]

\* luaV_shiftl (lvm.c): a shift by IntBits or more gives 0, a negative y
\* shifts right (logical)
luaV_shiftl(x, y) ==
  IF y < 0
  THEN IF y <= 0 - IntBits THEN 0
       ELSE intop(l_castS2U(x) \div Pow(2, 0 - y))
  ELSE IF y >= IntBits THEN 0
       ELSE intop(l_castS2U(x) * Pow(2, y))

\* intarith: "case LUA_OPADD: return intop(+, v1, v2)"
intarith_add_nowrap(v1, v2) ==
  IF v1 + v2 > LUA_MAXINTEGER THEN LUA_MAXINTEGER
  ELSE IF v1 + v2 < LUA_MININTEGER THEN LUA_MININTEGER ELSE v1 + v2
intarith_add(v1, v2) == intop(l_castS2U(v1) + l_castS2U(v2))

\* intarith(L, op, v1, v2).  negv2 is the value of the expression -v2 of
\* the LUA_OPSHR case, which is not defined by C when v2 is the minimum
\* integer.
intarith(op, v1, v2, negv2) ==
  CASE op = LUA_OPADD -> [raise |-> FALSE, i |-> intarith_add(v1, v2)]
    [] op = LUA_OPSUB ->
         [raise |-> FALSE, i |-> intop(l_castS2U(v1) - l_castS2U(v2))]
    [] op = LUA_OPMUL ->
         [raise |-> FALSE, i |-> intop(l_castS2U(v1) * l_castS2U(v2))]
    [] op = LUA_OPMOD -> luaV_mod(v1, v2)
    [] op = LUA_OPIDIV -> luaV_div(v1, v2)
    [] op = LUA_OPBAND ->
         [raise |-> FALSE,
          i |-> intop(BitAnd(l_castS2U(v1), l_castS2U(v2), IntBits))]
    [] op = LUA_OPBOR ->
         [raise |-> FALSE,
          i |-> intop((l_castS2U(v1) + l_castS2U(v2))
                        - BitAnd(l_castS2U(v1), l_castS2U(v2), IntBits))]
    [] op = LUA_OPBXOR ->
         [raise |-> FALSE,
          i |-> intop(BitXor(l_castS2U(v1), l_castS2U(v2), IntBits))]
    [] op = LUA_OPSHL -> [raise |-> FALSE, i |-> luaV_shiftl(v1, v2)]
    [] op = LUA_OPSHR -> [raise |-> FALSE, i |-> luaV_shiftl(v1, negv2)]
    [] op = LUA_OPUNM -> [raise |-> FALSE, i |-> intop(0 - l_castS2U(v1))]
    [] op = LUA_OPBNOT ->
         [raise |-> FALSE,
          i |-> intop(BitXor(UMod - 1, l_castS2U(v1), IntBits))]
    [] OTHER -> [raise |-> FALSE, i |-> 0]

\* the float num/den, in lowest terms and with the sign in the numerator
Sign(x) == IF x > 0 THEN 1 ELSE IF x < 0 THEN 0 - 1 ELSE 0
fltvalue(num, den) ==
  IF den = 0 THEN <<Sign(num), 0>>
  ELSE <<(Sign(den) * num) \div Gcd(Abs(num), Abs(den)),
         Abs(den) \div Gcd(Abs(num), Abs(den))>>

\* luai_numpow (pow of the C library) for the exponents -1, 0 and 2
luai_numpow(a, b) ==
  CASE b = <<0, 1>> -> <<1, 1>>
    [] b = <<2, 1>> -> fltvalue(a[1] * a[1], a[2] * a[2])
    [] b = <<0 - 1, 1>> -> fltvalue(a[2], a[1])

\* numarith(L, op, v1, v2) on finite operands
numarith(op, a, b) ==
  CASE op = LUA_OPADD -> fltvalue(a[1] * b[2] + b[1] * a[2], a[2] * b[2])
    [] op = LUA_OPSUB -> fltvalue(a[1] * b[2] - b[1] * a[2], a[2] * b[2])
    [] op = LUA_OPMUL -> fltvalue(a[1] * b[1], a[2] * b[2])
    [] op = LUA_OPDIV -> fltvalue(a[1] * b[2], a[2] * b[1])
    [] op = LUA_OPPOW -> luai_numpow(a, b)
    [] op = LUA_OPIDIV ->
         IF b[1] = 0 THEN fltvalue(a[1], 0)
         ELSE <<FloorDiv(a[1] * b[2], a[2] * b[1]), 1>>
    [] op = LUA_OPUNM -> <<0 - a[1], a[2]>>
    [] op = LUA_OPMOD ->
         IF b[1] = 0 THEN <<0, 0>>
         ELSE fltvalue(FloorMod(a[1] * b[2], b[1] * a[2]), a[2] * b[2])
    [] OTHER -> <<0, 1>>

\* luaO_arith: which case of the switch (op)
arith_bitwise(op) ==
  op \in {LUA_OPBAND, LUA_OPBOR, LUA_OPBXOR, LUA_OPSHL, LUA_OPSHR, LUA_OPBNOT}
arith_float_only_div(op) == op = LUA_OPDIV
arith_float_only(op) == op \in {LUA_OPDIV, LUA_OPPOW}

\* the results of luaO_arith: a value stored in res, an error raised by
\* luaV_mod or luaV_div, or the call of luaT_trybinTM
ArithRaw(v) == [path |-> "raw", res |-> v]
ArithInt(r) ==
  IF r.raise THEN [path |-> "error", res |-> setnilvalue]
  ELSE ArithRaw(setivalue(r.i))
ArithTM == [path |-> "tm", res |-> setnilvalue]

\* the operands of the model
ArithInts == {LUA_MININTEGER, 0 - 1, 0, 1, LUA_MAXINTEGER}
ArithFirst ==
  {setivalue(i) : i \in ArithInts}
    \cup {setfltvalue(3, 2), setfltvalue(2, 1), TString(<<"1", "0">>),
          TString(<<"x">>), setnilvalue}
ArithSecond ==
  {setivalue(i) : i \in ArithInts}
    \cup {setivalue(2), setfltvalue(1, 2), setfltvalue(2, 1),
          TString(<<"x">>)}
\* the exponents for which luai_numpow is modelled
PowSecond ==
  {setivalue(0 - 1), setivalue(0), setivalue(2), setfltvalue(2, 1),
   TString(<<"x">>)}
\* tointeger(o, &i) and tonumber(o, &n) on each operand of the model
ArithCoerced ==
  [o \in ArithFirst \cup ArithSecond |->
     [i |-> tointeger(o, 0), n |-> tonumber(o, <<0, 1>>)]]

\* luaO_arith(L, op, p1, p2, res); i1, i2 and n1, n2 are what tointeger
\* and tonumber make of the operands, cv[o] what they make of o
arith_switch(op, p1, p2, i1, i2, n1, n2, negv2) ==
  IF arith_bitwise(op)
  THEN IF i1.isnum = 1 /\ i2.isnum = 1
       THEN ArithInt(intarith(op, i1.res, i2.res, negv2))
       ELSE ArithTM
  ELSE IF arith_float_only(op)
  THEN IF n1.isnum = 1 /\ n2.isnum = 1
       THEN ArithRaw([tt |-> LUA_TNUMFLT, v |-> numarith(op, n1.n, n2.n)])
       ELSE ArithTM
  ELSE IF ttisinteger(p1) /\ ttisinteger(p2)
  THEN ArithInt(intarith(op, p1.v, p2.v, negv2))
  ELSE IF n1.isnum = 1 /\ n2.isnum = 1
  THEN ArithRaw([tt |-> LUA_TNUMFLT, v |-> numarith(op, n1.n, n2.n)])
  ELSE ArithTM
luaO_arith(cv, op, p1, p2, negv2) ==
  arith_switch(op, p1, p2, cv[p1].i, cv[p2].i, cv[p1].n, cv[p2].n, negv2)

\* what -v2 may yield in the LUA_OPSHR case, i2 being the integer that
\* tointeger makes of the second operand
NegOutcomes(op, i2) ==
  IF op = LUA_OPSHR /\ i2.isnum = 1
  THEN IF i2.res = LUA_MININTEGER THEN IntRange ELSE {0 - i2.res}
  ELSE {0}

NoArith == [op |-> 0 - 1, p1 |-> setnilvalue, p2 |-> setnilvalue,
            path |-> "none", res |-> setnilvalue]
ArithIdle == ar_last = NoArith

\* the operator and the operands of one lua_arith call, before the call:
\* the two values on top, or for LUA_OPUNM and LUA_OPBNOT the operand and
\* its copy as a fake second operand
ArithInit ==
  \E op \in LUA_OPADD..LUA_OPBNOT, p1 \in ArithFirst, p2 \in ArithSecond :
    /\ op = LUA_OPPOW => p2 \in PowSecond
    /\ ar_last = [op |-> op, p1 |-> p1,
                  p2 |-> IF op \in {LUA_OPUNM, LUA_OPBNOT} THEN p1 ELSE p2,
                  path |-> "none", res |-> setnilvalue]

\* lua_arith: luaO_arith(L, op, L->top - 2, L->top - 1, L->top - 2)
ArithResult(r) ==
  ar_last' = [ar_last EXCEPT !.path = r.path, !.res = r.res]

ArithStep(cv) ==
  /\ ar_last.path = "none"
  /\ \E negv2 \in NegOutcomes(ar_last.op, cv[ar_last.p2].i) :
       ArithResult(luaO_arith(cv, ar_last.op, ar_last.p1, ar_last.p2, negv2))
  /\ UNCHANGED notarith

lua_arith == ArithStep(ArithCoerced)

ArithNext == lua_arith

\* can the operand be coerced to a number: a number, or a string that is
\* a numeral
ArithCoercible(o) ==
  ttisnumber(o) \/ (ttisstring(o) /\ o # TString(<<"x">>))

\* C25: on two integers luaO_arith yields an integer for + - * % // unary
\* minus and the bitwise operators, and a float for / and ^; on an integer
\* and a float the operators that are not bitwise yield a float; when an
\* operand cannot be coerced to a number the metamethod path is taken.
C25_ResultVariant ==
  /\ (ar_last.path # "none" /\ ttisinteger(ar_last.p1)
      /\ ttisinteger(ar_last.p2)) =>
        /\ ar_last.path \in {"raw", "error"}
        /\ ar_last.path = "error" =>
              ar_last.op \in {LUA_OPMOD, LUA_OPIDIV} /\ ar_last.p2.v = 0
        /\ ar_last.path = "raw" =>
              IF ar_last.op \in {LUA_OPDIV, LUA_OPPOW}
              THEN ttisfloat(ar_last.res) ELSE ttisinteger(ar_last.res)
  /\ (/\ ar_last.path # "none"
      /\ \/ ttisinteger(ar_last.p1) /\ ttisfloat(ar_last.p2)
         \/ ttisfloat(ar_last.p1) /\ ttisinteger(ar_last.p2)
      /\ ar_last.op \in LUA_OPADD..LUA_OPIDIV \cup {LUA_OPUNM}) =>
        ar_last.path = "raw" /\ ttisfloat(ar_last.res)
  /\ (/\ ar_last.path # "none"
      /\ ~ArithCoercible(ar_last.p1) \/ ~ArithCoercible(ar_last.p2)) =>
        ar_last.path = "tm"

\* the integer -1 has been raised to the power 2 (an integer) and the
\* result is the float 1
C25_Witness ==
  /\ ar_last.op = LUA_OPPOW
  /\ ar_last.p1 = setivalue(0 - 1)
  /\ ar_last.p2 = setivalue(2)
  /\ ar_last.res = setfltvalue(1, 1)

\* C26: the integer +, -, * and unary minus of intarith return the result
\* modulo 2^IntBits, as a two's-complement integer, for all operands, and
\* never raise.
C26_IntegerOverflowWraps ==
  (/\ ar_last.path # "none"
   /\ ar_last.op \in {LUA_OPADD, LUA_OPSUB, LUA_OPMUL, LUA_OPUNM}
   /\ ttisinteger(ar_last.p1) /\ ttisinteger(ar_last.p2)) =>
     /\ ar_last.path = "raw"
     /\ ttisinteger(ar_last.res)
     /\ ar_last.res.v \in IntRange
     /\ (ar_last.res.v
           - (CASE ar_last.op = LUA_OPADD -> ar_last.p1.v + ar_last.p2.v
                [] ar_last.op = LUA_OPSUB -> ar_last.p1.v - ar_last.p2.v
                [] ar_last.op = LUA_OPMUL -> ar_last.p1.v * ar_last.p2.v
                [] ar_last.op = LUA_OPUNM -> 0 - ar_last.p1.v)) % UMod = 0

\* the maximum integer plus 1 has given the minimum integer
C26_Witness ==
  /\ ar_last.op = LUA_OPADD
  /\ ar_last.p1 = setivalue(LUA_MAXINTEGER)
  /\ ar_last.p2 = setivalue(1)
  /\ ar_last.path = "raw"
  /\ ar_last.res = setivalue(LUA_MININTEGER)

(***************************************************************************)
(* The literal cache (lstring.c).  A string is known by its address, its   *)
(* place in c_strs; the address of a freed string is used again by the     *)
(* next string created.  Marking, the flip of the current white and the    *)
(* sweep are the collector's (lgc.c).                                      *)
(***************************************************************************)
\* STRCACHE_N (llimits.h: 53), scaled
CacheN == 2
\* STRCACHE_M: the slots of a row
STRCACHE_M == 2
\* the literals of the host: literal k is at address k, and the host may
\* put other bytes at the same address between two calls
MaxLiterals == 3
CacheLiterals == 0..(MaxLiterals - 1)
CacheContents == {<<97>>, <<98>>}

\* g->memerrmsg
memerrmsg == 1

NoCache == [op |-> "none", before |-> <<>>]
CacheIdle ==
  /\ c_strs = <<>> /\ g_strcache = <<>> /\ c_white = 1 /\ c_last = NoCache

\* luaS_init: "g->strcache[i][j] = g->memerrmsg"
cache_init_slot_null == memerrmsg - 1
cache_init_slot == memerrmsg
\* luaS_init: memerrmsg is created and fixed, and fills the cache
CacheInit ==
  /\ c_strs = <<[bytes |-> MEMERRMSG, marked |-> GRAY, freed |-> FALSE]>>
  /\ g_strcache = [i \in 1..CacheN |-> [j \in 1..STRCACHE_M |-> cache_init_slot]]
  /\ c_white = 1
  /\ c_last = [op |-> "init", before |-> <<>>]

\* internshrstr finds the string with these bytes among the linked ones
CacheInterned(strs, bytes) ==
  \E a \in 1..Len(strs) : ~strs[a].freed /\ strs[a].bytes = bytes
\* luaS_newlstr on a short literal: the interned string with these bytes, or
\* a new one at a free address
CacheIntern(strs, bytes) ==
  IF CacheInterned(strs, bytes)
  THEN CHOOSE a \in 1..Len(strs) : ~strs[a].freed /\ strs[a].bytes = bytes
  ELSE IF \E a \in 1..Len(strs) : strs[a].freed
  THEN CHOOSE a \in 1..Len(strs) : strs[a].freed
  ELSE Len(strs) + 1

\* the strings an emergency collection may find unreachable
CacheCollectable(strs, cw) ==
  {a \in 1..Len(strs) :
     ~strs[a].freed /\ strs[a].marked # GRAY /\ ~isdead(cw, strs[a].marked)}
\* luaC_fullgc(L, 1), run by an allocation that failed: the strings in live
\* are reached, the atomic phase clears the slots of the others and flips
\* the current white, and the sweep frees them
CacheFullGC(strs, cache, cw, live) ==
  [strs |-> [a \in 1..Len(strs) |->
               IF strs[a].freed \/ strs[a].marked = GRAY THEN strs[a]
               ELSE IF a \in live
               THEN [strs[a] EXCEPT !.marked = otherwhite(cw)]
               ELSE [strs[a] EXCEPT !.freed = TRUE]],
   cache |-> [i \in 1..CacheN |->
                [j \in 1..STRCACHE_M |->
                   IF strs[cache[i][j]].marked = GRAY \/ cache[i][j] \in live
                   THEN cache[i][j] ELSE memerrmsg]],
   white |-> otherwhite(cw)]

\* luaS_new: "for (j = STRCACHE_M - 1; j > 0; j--) p[j] = p[j - 1]"
luaS_new_shift_none(p) == p
luaS_new_shift(p) == [j \in 1..STRCACHE_M |-> IF j = 1 THEN p[1] ELSE p[j - 1]]

\* luaS_newlstr within luaS_new, on the heap h whose cache row i has been
\* shifted: the string is stored in p[0]
CacheCreate(h, i, bytes) ==
  LET ts == CacheIntern(h.strs, bytes)
  IN [strs |-> [a \in 1..Len(h.strs) \cup {ts} |->
                  IF a = ts
                  THEN [bytes |-> bytes,
                        marked |-> IF a <= Len(h.strs) /\ ~h.strs[a].freed
                                   THEN resurrect(h.white, h.strs[a].marked)
                                   ELSE h.white,
                        freed |-> FALSE]
                  ELSE h.strs[a]],
      cache |-> [h.cache EXCEPT ![i][1] = ts],
      white |-> h.white,
      ret |-> ts]

\* the miss of luaS_new(L, str) in row i: cr is what the allocation of a
\* string that is not interned does
CacheMiss(i, bytes, cr, live) ==
  LET h0 == [strs |-> c_strs,
             cache |-> [g_strcache EXCEPT ![i] = luaS_new_shift(@)],
             white |-> c_white]
      h1 == IF cr = "ok" THEN h0
            ELSE CacheFullGC(h0.strs, h0.cache, h0.white, live)
      h2 == IF cr = "errmem" THEN h1 @@ [ret |-> 0]
            ELSE CacheCreate(h1, i, bytes)
  IN /\ c_strs' = h2.strs
     /\ g_strcache' = h2.cache
     /\ c_white' = h2.white
     /\ c_last' = [op |-> IF cr = "errmem" THEN "errmem" ELSE "miss",
                   before |-> g_strcache, i |-> i, bytes |-> bytes,
                   ret |-> h2.ret, gc |-> cr # "ok"]

\* luaS_new(L, str), str the literal at address k with these bytes
luaS_new ==
  \E k \in CacheLiterals : \E bytes \in CacheContents :
    LET i == (k % CacheN) + 1
    IN /\ IF \E j \in 1..STRCACHE_M : c_strs[g_strcache[i][j]].bytes = bytes
          THEN /\ c_last' =
                    [op |-> "hit", before |-> g_strcache, i |-> i,
                     bytes |-> bytes, gc |-> FALSE,
                     ret |-> g_strcache[i][
                               CHOOSE j \in 1..STRCACHE_M :
                                 /\ c_strs[g_strcache[i][j]].bytes = bytes
                                 /\ \A j2 \in 1..(j - 1) :
                                      c_strs[g_strcache[i][j2]].bytes # bytes]]
               /\ UNCHANGED <<c_strs, g_strcache, c_white>>
          ELSE \E cr \in {"ok", "gc", "errmem"} :
               \E live \in SUBSET CacheCollectable(c_strs, c_white) :
                 /\ cr # "ok" => ~CacheInterned(c_strs, bytes)
                 /\ cr = "ok" => live = {}
                 /\ CacheMiss(i, bytes, cr, live)
       /\ UNCHANGED notcache

\* no string waits for the sweep: a new cycle may mark and reach its
\* atomic phase
CacheSwept ==
  \A a \in 1..Len(c_strs) :
     c_strs[a].freed \/ ~isdead(c_white, c_strs[a].marked)

\* the collector reaches a white string and marks it
CacheMark ==
  \E a \in 1..Len(c_strs) :
    /\ CacheSwept
    /\ ~c_strs[a].freed
    /\ c_strs[a].marked = c_white
    /\ c_strs' = [c_strs EXCEPT ![a].marked = BLACK]
    /\ c_last' = [op |-> "mark", before |-> g_strcache]
    /\ UNCHANGED <<g_strcache, c_white, notcache>>

\* luaS_clearcache: "if (iswhite(g->strcache[i][j])) g->strcache[i][j] =
\* g->memerrmsg", on the slot that holds ts, whose mark is marked
clearcache_slot_black(marked, ts) == IF marked = BLACK THEN memerrmsg ELSE ts
clearcache_slot(marked, ts) == IF iswhite(marked) THEN memerrmsg ELSE ts

\* luaS_clearcache(g), called by the atomic phase, which then flips the
\* current white
luaS_clearcache ==
  /\ CacheSwept
  /\ g_strcache' =
       [i \in 1..CacheN |->
          [j \in 1..STRCACHE_M |->
             clearcache_slot(c_strs[g_strcache[i][j]].marked,
                             g_strcache[i][j])]]
  /\ c_white' = otherwhite(c_white)
  /\ c_last' = [op |-> "clearcache", before |-> g_strcache]
  /\ UNCHANGED <<c_strs, notcache>>

\* the sweep that follows the atomic phase: the dead strings are freed, the
\* others get the current white
CacheSweep ==
  /\ \E a \in 1..Len(c_strs) :
        ~c_strs[a].freed /\ c_strs[a].marked \in {BLACK, otherwhite(c_white)}
  /\ c_strs' =
       [a \in 1..Len(c_strs) |->
          IF c_strs[a].freed \/ c_strs[a].marked = GRAY THEN c_strs[a]
          ELSE IF isdead(c_white, c_strs[a].marked)
          THEN [c_strs[a] EXCEPT !.freed = TRUE]
          ELSE [c_strs[a] EXCEPT !.marked = c_white]]
  /\ c_last' = [op |-> "sweep", before |-> g_strcache]
  /\ UNCHANGED <<g_strcache, c_white, notcache>>

CacheNext == luaS_new \/ CacheMark \/ luaS_clearcache \/ CacheSweep

\* C21: right after luaS_clearcache no slot of the literal cache refers to
\* a white string; every slot that held a white string holds the
\* memory-error message, and every slot that held a string that was not
\* white is as it was.
C21_ClearCacheDropsWhites ==
  [][c_last'.op = "clearcache" =>
       /\ c_strs' = c_strs
       /\ ~iswhite(c_strs[memerrmsg].marked)
       /\ c_strs[memerrmsg].bytes = MEMERRMSG
       /\ \A i \in 1..CacheN : \A j \in 1..STRCACHE_M :
            /\ ~iswhite(c_strs'[g_strcache'[i][j]].marked)
            /\ iswhite(c_strs[g_strcache[i][j]].marked) =>
                  g_strcache'[i][j] = memerrmsg
            /\ ~iswhite(c_strs[g_strcache[i][j]].marked) =>
                  g_strcache'[i][j] = g_strcache[i][j]]_vars

\* luaS_clearcache has just cleared a slot and kept another one that holds
\* a marked string
C21_Witness ==
  /\ c_last.op = "clearcache"
  /\ \E i \in 1..CacheN : \E j \in 1..STRCACHE_M :
        c_last.before[i][j] # memerrmsg /\ g_strcache[i][j] = memerrmsg
  /\ \E i \in 1..CacheN : \E j \in 1..STRCACHE_M :
        g_strcache[i][j] # memerrmsg /\ c_strs[g_strcache[i][j]].marked = BLACK

\* C31: luaS_new(s) returns a string whose bytes are those of s, also when
\* an address comes with other bytes than before or when two addresses
\* select the same row; on a miss the created string is in slot 0 of the
\* row the address selects and the slot-0 entry of before is in slot 1
C31_NewReturnsBytesAndShifts ==
  c_last.op \in {"hit", "miss"} =>
    /\ c_last.ret \in 1..Len(c_strs)
    /\ ~c_strs[c_last.ret].freed
    /\ c_strs[c_last.ret].bytes = c_last.bytes
    /\ c_last.op = "miss" =>
         /\ g_strcache[c_last.i][1] = c_last.ret
         /\ g_strcache[c_last.i][2] = c_last.before[c_last.i][1]

\* C31, as the code has it: the same, but when the creation of the string
\* runs an emergency collection, slot 1 holds the slot-0 entry of before or,
\* if the collection found that string unreachable, the memory-error
\* message
C31_NewReturnsBytesAndShiftsLive ==
  c_last.op \in {"hit", "miss"} =>
    /\ c_last.ret \in 1..Len(c_strs)
    /\ ~c_strs[c_last.ret].freed
    /\ c_strs[c_last.ret].bytes = c_last.bytes
    /\ c_last.op = "miss" =>
         /\ g_strcache[c_last.i][1] = c_last.ret
         /\ \/ g_strcache[c_last.i][2] = c_last.before[c_last.i][1]
            \/ /\ c_last.gc
               /\ g_strcache[c_last.i][2] = memerrmsg

\* a miss without a collection in a row whose slot 0 held another string:
\* that string is now in slot 1, behind the new one
C31_Witness ==
  /\ c_last.op = "miss" /\ ~c_last.gc
  /\ c_last.before[c_last.i][1] # memerrmsg
  /\ g_strcache[c_last.i][2] = c_last.before[c_last.i][1]
  /\ g_strcache[c_last.i][1] = c_last.ret
  /\ c_strs[g_strcache[c_last.i][2]].bytes # c_last.bytes

\* C32: whatever the interleaving of luaS_new with the collector, every
\* slot of the cache refers to a string that has not been freed, from
\* luaS_init on, and a hit returns a string that is neither dead nor freed
C32_CacheAlwaysValid ==
  /\ \A i \in 1..CacheN : \A j \in 1..STRCACHE_M :
       /\ g_strcache[i][j] \in 1..Len(c_strs)
       /\ ~c_strs[g_strcache[i][j]].freed
  /\ c_last.op = "hit" =>
       /\ c_last.ret \in 1..Len(c_strs)
       /\ ~c_strs[c_last.ret].freed
       /\ ~isdead(c_white, c_strs[c_last.ret].marked)

\* a hit on a string that survived a cycle, while a slot has been cleared
\* and the string it held has been freed
C32_Witness ==
  /\ c_last.op = "hit" /\ c_strs[c_last.ret].marked = BLACK
  /\ \E a \in 1..Len(c_strs) : c_strs[a].freed
  /\ \E i \in 1..CacheN : \E j \in 1..STRCACHE_M :
       c_last.before[i][j] = memerrmsg

(***************************************************************************)
(* Heap objects written through the API (lapi.c): raw table writes,       *)
(* metatables, user values and upvalues, with the absent-metamethod bits  *)
(* of a table and the colours of the incremental collector.               *)
(***************************************************************************)
\* the objects of the heap: two tables, a full userdata and the running C
\* closure; the host holds all of them, so the collector frees none
HeapTables == {"T", "M"}
HeapObjs == HeapTables \cup {"U", "C"}
\* the table the host writes and looks events up in
RawTargets == {"M"}
NILV == "nil"
iscollectable(v) == v \in HeapObjs
\* the events with a bit in flags; G(L)->tmname[e] is the name of event e
Events == 0 .. 1
tmname(e) == <<LUA_TSHRSTR, e>>
\* the keys of a table: the event names, an integer and a light userdata
HeapKeys == {tmname(e) : e \in Events}
              \cup {<<LUA_TNUMINT, 1>>, <<LUA_TLIGHTUSERDATA, 1>>}
\* the values the host stores: nil or a collectable object
NodeVals == {NILV, "U"}
UserVals == {NILV, "M"}
UpVals == {NILV, "U"}
MetaVals == {NILV, "M"}

isblack(m) == m = BLACK
isgray(m) == ~iswhite(m) /\ ~isblack(m)

\* the objects that object o refers to
Refs(node, mt, user, up, o) ==
  HeapObjs \cap
    (IF o \in HeapTables THEN {node[o][k] : k \in HeapKeys} \cup {mt[o]}
     ELSE IF o = "U" THEN {mt[o], user}
     ELSE {up})

\* luaC_barrierback(L, t, v): a black table that receives a white object
\* becomes gray again
luaC_barrierback(marked, t, v) ==
  IF iscollectable(v) /\ isblack(marked[t]) /\ iswhite(marked[v])
  THEN [marked EXCEPT ![t] = GRAY]
  ELSE marked
\* luaC_objbarrier(L, p, o): a black object that receives a white object
\* has the white object marked
luaC_objbarrier(marked, p, o) ==
  IF isblack(marked[p]) /\ iswhite(marked[o])
  THEN [marked EXCEPT ![o] = GRAY]
  ELSE marked
\* luaC_barrier(L, p, v): the same for a value, when it is collectable
luaC_barrier(marked, p, v) ==
  IF iscollectable(v) THEN luaC_objbarrier(marked, p, v) ELSE marked

\* invalidateTMcache(t): t->flags = 0
invalidateTMcache(flags) == {}

NoHeap == [op |-> "none", o |-> NILV, v |-> NILV, e |-> 0, tm |-> NILV]
HeapIdle ==
  /\ h_marked = <<>> /\ h_white = 1 /\ h_gcstate = "pause"
  /\ h_node = <<>> /\ h_flags = <<>> /\ h_metatable = <<>>
  /\ h_user = NILV /\ h_upvalue = NILV /\ h_last = NoHeap
\* the objects are new: white, empty tables with no event known absent
HeapInit ==
  /\ h_white = 1 /\ h_gcstate = "pause"
  /\ h_marked = [o \in HeapObjs |-> h_white]
  /\ h_node = [t \in HeapTables |-> [k \in HeapKeys |-> NILV]]
  /\ h_flags = [t \in HeapTables |-> {}]
  /\ h_metatable = [o \in HeapTables \cup {"U"} |-> NILV]
  /\ h_user = NILV /\ h_upvalue = NILV /\ h_last = NoHeap

HeapStore(op, o, v) == [op |-> op, o |-> o, v |-> v, e |-> 0, tm |-> NILV]

\* lua_rawset: the flags the written table is left with
rawset_flags_keep(flags) == flags
rawset_flags(flags) == invalidateTMcache(flags)
\* lua_rawset(L, idx): t[k] = v for the key and the value on the stack
lua_rawset ==
  \E t \in RawTargets : \E k \in HeapKeys : \E v \in NodeVals :
    /\ h_node' = [h_node EXCEPT ![t][k] = v]
    /\ h_flags' = [h_flags EXCEPT ![t] = rawset_flags(@)]
    /\ h_marked' = luaC_barrierback(h_marked, t, v)
    /\ h_last' = HeapStore("lua_rawset", t, v)
    /\ UNCHANGED <<h_white, h_gcstate, h_metatable, h_user, h_upvalue>>
    /\ UNCHANGED notheap

\* lua_rawseti: luaH_setint writes the integer key n
rawseti_key_name(n) == tmname(0)
rawseti_key(n) == <<LUA_TNUMINT, n>>
\* lua_rawseti: what the written table's mark becomes
rawseti_barrier_none(marked, t, v) == marked
rawseti_barrier(marked, t, v) == luaC_barrierback(marked, t, v)
\* lua_rawseti(L, idx, n): t[n] = v
lua_rawseti ==
  \E t \in RawTargets : \E n \in {1} : \E v \in NodeVals :
    /\ h_node' = [h_node EXCEPT ![t][rawseti_key(n)] = v]
    /\ h_marked' = rawseti_barrier(h_marked, t, v)
    /\ h_last' = HeapStore("lua_rawseti", t, v)
    /\ UNCHANGED <<h_white, h_gcstate, h_flags, h_metatable, h_user,
                   h_upvalue>>
    /\ UNCHANGED notheap

\* lua_rawsetp(L, idx, p): t[light userdata p] = v
lua_rawsetp ==
  \E t \in RawTargets : \E p \in {1} : \E v \in NodeVals :
    /\ h_node' = [h_node EXCEPT ![t][<<LUA_TLIGHTUSERDATA, p>>] = v]
    /\ h_marked' = luaC_barrierback(h_marked, t, v)
    /\ h_last' = HeapStore("lua_rawsetp", t, v)
    /\ UNCHANGED <<h_white, h_gcstate, h_flags, h_metatable, h_user,
                   h_upvalue>>
    /\ UNCHANGED notheap

\* luaH_getshortstr(events, ename)
luaH_getshortstr(node, e) == node[tmname(e)]
\* fasttm(L, et, e): NULL when the bit of e is set, else luaT_gettm, which
\* sets the bit when the raw lookup of the name yields nil
fasttm ==
  \E t \in RawTargets : \E e \in Events :
    LET tm == IF e \in h_flags[t] THEN NILV
              ELSE luaH_getshortstr(h_node[t], e)
    IN /\ h_flags' = IF e \notin h_flags[t] /\ tm = NILV
                     THEN [h_flags EXCEPT ![t] = @ \cup {e}]
                     ELSE h_flags
       /\ h_last' = [op |-> "fasttm", o |-> t, v |-> NILV, e |-> e,
                     tm |-> tm]
       /\ UNCHANGED <<h_marked, h_white, h_gcstate, h_node, h_metatable,
                      h_user, h_upvalue>>
       /\ UNCHANGED notheap

\* lua_setmetatable(L, objindex) on a table or a full userdata; no
\* metatable of the model has a __gc field for luaC_checkfinalizer
lua_setmetatable ==
  \E obj \in {"T", "U"} : \E mt \in MetaVals :
    /\ h_metatable' = [h_metatable EXCEPT ![obj] = mt]
    /\ h_marked' = IF mt # NILV THEN luaC_objbarrier(h_marked, obj, mt)
                   ELSE h_marked
    /\ h_last' = HeapStore("lua_setmetatable", obj, mt)
    /\ UNCHANGED <<h_white, h_gcstate, h_node, h_flags, h_user, h_upvalue>>
    /\ UNCHANGED notheap

\* lua_setuservalue(L, idx)
lua_setuservalue ==
  \E v \in UserVals :
    /\ h_user' = v
    /\ h_marked' = luaC_barrier(h_marked, "U", v)
    /\ h_last' = HeapStore("lua_setuservalue", "U", v)
    /\ UNCHANGED <<h_white, h_gcstate, h_node, h_flags, h_metatable,
                   h_upvalue>>
    /\ UNCHANGED notheap

\* lua_copy(L, fromidx, toidx) with toidx an upvalue of the running function
lua_copy ==
  \E fr \in UpVals :
    /\ h_upvalue' = fr
    /\ h_marked' = luaC_barrier(h_marked, "C", fr)
    /\ h_last' = HeapStore("lua_copy", "C", fr)
    /\ UNCHANGED <<h_white, h_gcstate, h_node, h_flags, h_metatable, h_user>>
    /\ UNCHANGED notheap

\* lua_setupvalue(L, funcindex, n) on a C closure: aux_upvalue names it owner
lua_setupvalue ==
  \E v \in UpVals :
    /\ h_upvalue' = v
    /\ h_marked' = luaC_barrier(h_marked, "C", v)
    /\ h_last' = HeapStore("lua_setupvalue", "C", v)
    /\ UNCHANGED <<h_white, h_gcstate, h_node, h_flags, h_metatable, h_user>>
    /\ UNCHANGED notheap

HeapGC(op) == [op |-> op, o |-> NILV, v |-> NILV, e |-> 0, tm |-> NILV]
HeapContents == <<h_node, h_flags, h_metatable, h_user, h_upvalue>>
\* the start of a cycle marks the roots
restartcollection ==
  /\ h_gcstate = "pause"
  /\ \E roots \in SUBSET HeapObjs :
       h_marked' = [o \in HeapObjs |->
                      IF o \in roots /\ iswhite(h_marked[o]) THEN GRAY
                      ELSE h_marked[o]]
  /\ h_gcstate' = "propagate"
  /\ h_last' = HeapGC("restartcollection")
  /\ UNCHANGED <<h_white, HeapContents>>
  /\ UNCHANGED notheap
\* one slice of the propagate state: a gray object becomes black and the
\* white objects it refers to gray
propagatemark ==
  /\ h_gcstate = "propagate"
  /\ \E o \in HeapObjs :
       /\ isgray(h_marked[o])
       /\ h_marked' =
            [x \in HeapObjs |->
               IF x = o THEN BLACK
               ELSE IF x \in Refs(h_node, h_metatable, h_user, h_upvalue, o)
                       /\ iswhite(h_marked[x]) THEN GRAY
               ELSE h_marked[x]]
  /\ h_last' = HeapGC("propagatemark")
  /\ UNCHANGED <<h_white, h_gcstate, HeapContents>>
  /\ UNCHANGED notheap
\* the atomic step, once nothing is gray: the stack of the host is marked
\* again and with it every object, the current white flips and the sweep
\* starts
atomic ==
  /\ h_gcstate = "propagate"
  /\ \A o \in HeapObjs : ~isgray(h_marked[o])
  /\ h_marked' = [o \in HeapObjs |-> BLACK]
  /\ h_white' = otherwhite(h_white)
  /\ h_gcstate' = "sweep"
  /\ h_last' = HeapGC("atomic")
  /\ UNCHANGED HeapContents
  /\ UNCHANGED notheap
\* one slice of the sweep: a survivor is repainted with the new white; the
\* cycle ends when every object has been
sweepstep ==
  /\ h_gcstate = "sweep"
  /\ \E o \in HeapObjs :
       /\ h_marked[o] # h_white
       /\ h_marked' = [h_marked EXCEPT ![o] = h_white]
  /\ h_gcstate' = IF \A o \in HeapObjs : h_marked'[o] = h_white
                  THEN "pause" ELSE "sweep"
  /\ h_last' = HeapGC("sweepstep")
  /\ UNCHANGED <<h_white, HeapContents>>
  /\ UNCHANGED notheap

MetaNext == lua_rawset \/ lua_rawseti \/ lua_rawsetp \/ fasttm
HeapNext ==
  \/ lua_rawset \/ lua_rawseti \/ lua_rawsetp \/ lua_setmetatable
  \/ lua_setuservalue \/ lua_copy \/ lua_setupvalue
  \/ restartcollection \/ propagatemark \/ atomic \/ sweepstep

RawWrites == {"lua_rawset", "lua_rawseti", "lua_rawsetp"}

\* C22: after a raw table write through lua_rawset, lua_rawseti or
\* lua_rawsetp, every absent-metamethod bit of the written table is clear
C22_RawWritesClearBits ==
  h_last.op \in RawWrites => h_flags[h_last.o] = {}

\* C22, as the code has it: after lua_rawset every absent-metamethod bit of
\* the written table is clear; lua_rawseti and lua_rawsetp leave the bits
\* of every table as they were
C22_OnlyRawsetClearsBits ==
  [][/\ h_last'.op = "lua_rawset" => h_flags'[h_last'.o] = {}
     /\ h_last'.op \in {"lua_rawseti", "lua_rawsetp"} => h_flags' = h_flags]_vars

\* lua_rawsetp has stored an object in a table whose lookups had found every
\* event absent, and the bits are still set
C22_Witness ==
  /\ h_last.op = "lua_rawsetp" /\ h_last.v = "U"
  /\ h_flags[h_last.o] = Events

\* C23: whenever the absent bit of an event is set in a table, the raw
\* lookup of the event's name in that table yields nil, after any sequence
\* of lookups and raw writes
C23_CacheCoherence ==
  \A t \in HeapTables : \A e \in Events :
    e \in h_flags[t] => luaH_getshortstr(h_node[t], e) = NILV

\* a lookup had found event 0 absent and event 1 present, and lua_rawseti
\* has then written the table: the bit of event 0 is still set
C23_Witness ==
  /\ h_last.op = "lua_rawseti" /\ h_last.v = "U"
  /\ h_flags[h_last.o] = {0}
  /\ luaH_getshortstr(h_node[h_last.o], 1) = "U"
  /\ h_node[h_last.o][rawseti_key(1)] = "U"

HeapStores ==
  RawWrites \cup {"lua_setmetatable", "lua_setuservalue", "lua_copy",
                  "lua_setupvalue"}
\* some black object refers to a white object
BlackToWhite ==
  \E o \in HeapObjs :
    /\ isblack(h_marked[o])
    /\ \E v \in Refs(h_node, h_metatable, h_user, h_upvalue, o) :
         iswhite(h_marked[v])

\* C24: lua_rawset, lua_rawseti, lua_rawsetp, lua_setuservalue,
\* lua_setmetatable, and lua_copy and lua_setupvalue into an upvalue of a C
\* closure return with no black object referring to a white object, at any
\* point of an incremental collection cycle
C24_NoBlackToWhiteAfterWrite ==
  h_last.op \in HeapStores => ~BlackToWhite

\* C24, as the code has it: at any point of a cycle these writes return with
\* the written object not a black object that received a white one, and
\* outside the sweep they return with no black object referring to a white
\* object
C24_WriteKeepsMarkInvariant ==
  h_last.op \in HeapStores =>
    /\ ~(/\ iscollectable(h_last.v)
         /\ isblack(h_marked[h_last.o])
         /\ iswhite(h_marked[h_last.v]))
    /\ h_gcstate # "sweep" => ~BlackToWhite

\* while the collector propagates marks, lua_copy has stored the userdata in
\* the upvalue of the black closure and the userdata is marked; a black
\* table is there too
C24_Witness ==
  /\ h_last.op = "lua_copy" /\ h_gcstate = "propagate"
  /\ h_upvalue = "U" /\ isblack(h_marked["C"]) /\ isgray(h_marked["U"])
  /\ isblack(h_marked["M"])

(***************************************************************************)
(* Upvalue cells shared between Lua closures (lapi.c, lua_upvaluejoin).    *)
(***************************************************************************)
\* The Lua closures on the stack.
Closures == 1 .. MaxClosures
\* f->p->sizeupvalues: the first closure has two upvalues, the others one.
sizeupvalues(f) == IF f = 1 THEN 2 ELSE 1
\* The pairs (fidx, n) that pass the checks of getupvalref:
\* "ttisLclosure(fi)" and "1 <= n && n <= f->p->sizeupvalues".
UpvSlots == {s \in Closures \X (1 .. sizeupvalues(1)) : s[2] <= sizeupvalues(s[1])}
UpvCells == 1 .. Cardinality(UpvSlots)
\* getupvalref returns &f->upvals[n - 1]; the model names that place by the
\* pair itself.
getupvalref(fidx, n) == <<fidx, n>>
NoUpv == [op |-> "none", s1 |-> <<0, 0>>, s2 |-> <<0, 0>>, uaf |-> FALSE]
UpvIdle == u_upvals = <<>> /\ u_cells = <<>> /\ u_last = NoUpv
\* The number of closure slots that hold the address of cell c.
UpvPointers(upvals, c) == Cardinality({s \in UpvSlots : upvals[s] = c})
\* Closures as lua_load and the VM leave them: every upvalue has a cell of
\* its own with refcount 1, still open (an alias of a stack slot) or closed.
UpvInit ==
  /\ \E cell \in [UpvSlots -> UpvCells] :
       /\ \A s, r \in UpvSlots : cell[s] = cell[r] => s = r
       /\ \A s, r \in UpvSlots :
            (s[1] < r[1] \/ (s[1] = r[1] /\ s[2] < r[2])) => cell[s] < cell[r]
       /\ u_upvals = cell
  /\ \E open \in [UpvCells -> BOOLEAN] :
       u_cells = [c \in UpvCells |->
                    [refcount |-> 1, open |-> open[c], freed |-> FALSE]]
  /\ u_last = NoUpv
\* luaC_upvdeccount(L, uv): "uv->refcount--" and the cell is freed when the
\* count reaches zero and the cell is closed (an open cell still belongs to
\* the list of open upvalues of its thread).
luaC_upvdeccount(cells, uv) ==
  LET rc == cells[uv].refcount - 1
  IN  [cells EXCEPT ![uv].refcount = rc,
                    ![uv].freed = (rc = 0 /\ ~cells[uv].open)]
\* lua_upvaluejoin(L, fidx1, n1, fidx2, n2):
\*   luaC_upvdeccount(L, *up1); *up1 = *up2; (*up1)->refcount++;
\* *up2 is read after the decrement.  When the cell it names has just been
\* freed, the increment writes to freed memory: the count it leaves is any
\* value and uaf is set.  "touched" and luaC_upvalbarrier only concern the
\* collector's marks.
lua_upvaluejoin ==
  /\ ~u_last.uaf
  /\ \E f1 \in Closures, n1 \in 1 .. sizeupvalues(1), f2 \in Closures, n2 \in 1 .. sizeupvalues(1) :
       /\ n1 <= sizeupvalues(f1) /\ n2 <= sizeupvalues(f2)
       /\ LET up1 == getupvalref(f1, n1)
              up2 == getupvalref(f2, n2)
              dec == luaC_upvdeccount(u_cells, u_upvals[up1])
              c2 == u_upvals[up2]
          IN  /\ u_upvals' = [u_upvals EXCEPT ![up1] = c2]
              /\ IF dec[c2].freed
                   THEN \E rc \in 0 .. Cardinality(UpvSlots) :
                          u_cells' = [dec EXCEPT ![c2].refcount = rc]
                   ELSE u_cells' = [dec EXCEPT ![c2].refcount = @ + 1]
              /\ u_last' = [op |-> "join", s1 |-> up1, s2 |-> up2,
                            uaf |-> dec[c2].freed]
  /\ UNCHANGED notupv
\* luaF_close reaches an open cell: a cell no closure refers to is freed, any
\* other becomes closed in place.
luaF_close ==
  /\ ~u_last.uaf
  /\ \E c \in UpvCells :
       /\ u_cells[c].open /\ ~u_cells[c].freed
       /\ u_cells' = IF u_cells[c].refcount = 0
                       THEN [u_cells EXCEPT ![c].freed = TRUE, ![c].open = FALSE]
                       ELSE [u_cells EXCEPT ![c].open = FALSE]
       /\ u_last' = [NoUpv EXCEPT !.op = "close"]
  /\ UNCHANGED <<u_upvals, notupv>>
UpvNext == lua_upvaluejoin \/ luaF_close

\* C37: after lua_upvaluejoin(f1, n1, f2, n2) upvalue n1 of f1 and upvalue
\* n2 of f2 are the same cell; after any sequence of joins the reference
\* count of every live cell is the number of closure slots that point to
\* it, and no cell a closure points to has been freed or is used after it
\* was freed, also when both arguments name the same upvalue of the same
\* closure.
C37_JoinSharesCell ==
  /\ u_last.op = "join" => u_upvals[u_last.s1] = u_upvals[u_last.s2]
  /\ \A c \in DOMAIN u_cells :
       ~u_cells[c].freed => u_cells[c].refcount = UpvPointers(u_upvals, c)
  /\ \A s \in DOMAIN u_upvals : ~u_cells[u_upvals[s]].freed
  /\ ~u_last.uaf

(***************************************************************************)
(* Formatted strings (lobject.c, luaO_pushvfstring; lapi.c,                *)
(* lua_pushvfstring).  A string is the sequence of its bytes.              *)
(***************************************************************************)
\* The code of a character of the C source.
ByteOf(c) ==
  CASE c = "%" -> 37 [] c = "(" -> 40 [] c = ")" -> 41 [] c = "-" -> 45
    [] c = "." -> 46 [] c = "<" -> 60 [] c = ">" -> 62 [] c = "I" -> 73
    [] c = "U" -> 85 [] c = "\\" -> 92 [] c = "a" -> 97 [] c = "c" -> 99
    [] c = "d" -> 100 [] c = "f" -> 102 [] c = "l" -> 108 [] c = "n" -> 110
    [] c = "p" -> 112 [] c = "s" -> 115 [] c = "u" -> 117 [] c = "x" -> 120
    [] OTHER -> 48 + ((CHOOSE d \in 1 .. 10 : DigitChars[d] = c) - 1)
Bytes(s) == [i \in 1 .. Len(s) |-> ByteOf(s[i])]
\* lisprint in the C locale
lisprint(b) == b >= 32 /\ b <= 126
\* The string object luaS_newlstr makes of l bytes.
FmtString(bytes) == [tt |-> LUA_TSHRSTR, v |-> bytes]
\* luaO_utf8esc(buff, x): one byte below 0x80, else continuation bytes
\* 0x80 | (x & 0x3f) from the right while x > mfb, then the first byte
\* (~mfb << 1) | x.
RECURSIVE utf8esc_cont(_, _, _)
utf8esc_cont(x, mfb, acc) ==
  LET acc1 == <<128 + (x % 64)>> \o acc
      x1 == x \div 64
      mfb1 == mfb \div 2
  IN  IF x1 > mfb1 THEN utf8esc_cont(x1, mfb1, acc1)
      ELSE <<(256 - 2 * (mfb1 + 1)) + x1>> \o acc1
luaO_utf8esc(x) == IF x < 128 THEN <<x>> ELSE utf8esc_cont(x, 63, <<>>)
\* l_sprintf(buff, sizeof(buff), "%p", p): the text of a pointer is chosen
\* by the C library; the model writes "0x" and the address in decimal
\* digits below ten.
PointerText(ptr) == Bytes(<<"0", "x">> \o DecDigits(ptr))
\* The directives the switch of luaO_pushvfstring has a case for.
FmtOptions == {ByteOf(c) : c \in {"s", "c", "d", "I", "f", "p", "U", "%"}}
\* What the caller passes for a directive, by the choice k it made:
\* a string or NULL, a character, an int, a lua_Integer, a lua_Number, a
\* pointer, a code point.
va_arg(opt, k) ==
  CASE opt = ByteOf("s") -> IF k = 0 THEN <<>> ELSE Bytes(<<"a", "x">>)
    [] opt = ByteOf("c") -> IF k = 0 THEN ByteOf("x") ELSE 7
    [] opt = ByteOf("d") -> IF k = 0 THEN 0 - 12 ELSE 7
    [] opt = ByteOf("I") -> IF k = 0 THEN 305 ELSE 0
    [] opt = ByteOf("f") -> IF k = 0 THEN <<1, 2>> ELSE <<3, 1>>
    [] opt = ByteOf("p") -> IF k = 0 THEN 1 ELSE 8
    [] opt = ByteOf("U") -> IF k = 0 THEN 65 ELSE 233
    [] OTHER -> 0
\* strchr(fmt, '%'): the position of the first '%', 0 for NULL.
strchr_percent(fmt) ==
  IF \E i \in 1 .. Len(fmt) : fmt[i] = ByteOf("%")
    THEN CHOOSE i \in 1 .. Len(fmt) :
           fmt[i] = ByteOf("%") /\ \A j \in 1 .. (i - 1) : fmt[j] # ByteOf("%")
    ELSE 0
\* pushstr: the string is stored at L->top and luaD_inctop raises the top.
pushstr(stack, bytes) == Append(stack, FmtString(bytes))
\* luaV_concat(L, total): the top total values, all strings here, are
\* replaced by their concatenation.
RECURSIVE ConcatBytes(_)
ConcatBytes(vals) ==
  IF vals = <<>> THEN <<>> ELSE Head(vals).v \o ConcatBytes(Tail(vals))
luaV_concat(stack, total) ==
  LET below == Len(stack) - total
  IN  Append(SubSeq(stack, 1, below),
             FmtString(ConcatBytes(SubSeq(stack, below + 1, Len(stack)))))
\* "n += 2": every directive has pushed the text before it and its own text.
fmt_n_step_one(n) == n + 1
fmt_n_step(n) == n + 2
\* top2str: the number stored at the top is converted in place by
\* luaO_tostring.
top2str(stack, o) == pushstr(stack, Bytes(tostringbuff(o)))
\* luaO_pushvfstring(L, fmt, argp), with n pieces already pushed.  The
\* result is the stack and whether luaG_runerror was called; argp is the
\* list of the caller's choices not yet consumed.
RECURSIVE luaO_pushvfstring(_, _, _, _)
luaO_pushvfstring(stack, fmt, argp, n) ==
  LET e == strchr_percent(fmt)
  IN  IF e = 0
        THEN LET last == pushstr(stack, fmt)
             IN  [stack |-> IF n > 0 THEN luaV_concat(last, n + 1) ELSE last,
                  raised |-> FALSE]
        ELSE
          LET s1 == pushstr(stack, SubSeq(fmt, 1, e - 1))
              opt == IF e < Len(fmt) THEN fmt[e + 1] ELSE 0
              k == IF argp = <<>> THEN 0 ELSE Head(argp)
              a == va_arg(opt, k)
              rest == SubSeq(fmt, e + 2, Len(fmt))
              s2 ==
                CASE opt = ByteOf("s") ->
                       pushstr(s1, IF a = <<>>
                                     THEN Bytes(<<"(", "n", "u", "l", "l", ")">>)
                                     ELSE a)
                  [] opt = ByteOf("c") ->
                       IF lisprint(a) THEN pushstr(s1, <<a>>)
                       ELSE luaO_pushvfstring(s1, Bytes(<<"<", "\\", "%", "d", ">">>),
                                              <<1>>, 0).stack
                  [] opt = ByteOf("d") -> top2str(s1, setivalue(a))
                  [] opt = ByteOf("I") -> top2str(s1, setivalue(a))
                  [] opt = ByteOf("f") -> top2str(s1, setfltvalue(a[1], a[2]))
                  [] opt = ByteOf("p") -> pushstr(s1, PointerText(a))
                  [] opt = ByteOf("U") -> pushstr(s1, luaO_utf8esc(a))
                  [] opt = ByteOf("%") -> pushstr(s1, <<ByteOf("%")>>)
                  [] OTHER -> s1
          IN  IF opt \notin FmtOptions
                THEN [stack |-> s1, raised |-> TRUE]
                ELSE luaO_pushvfstring(
                       s2, rest,
                       IF opt = ByteOf("%") \/ argp = <<>> THEN argp ELSE Tail(argp),
                       fmt_n_step(n))
\* The formats: up to MaxPieces pieces, each a literal text, possibly
\* empty, and then '%' with a character or just '%', and a last literal.
FmtLiterals == {<<>>, Bytes(<<"a">>)}
FmtDirectives ==
  {<<ByteOf("%")>>} \cup
  {<<ByteOf("%"), b>> : b \in FmtOptions \cup {ByteOf("a")}}
RECURSIVE FmtPieces(_)
FmtPieces(m) ==
  IF m = 0 THEN {<<>>}
  ELSE FmtPieces(m - 1) \cup
       {l \o d \o r : l \in FmtLiterals, d \in FmtDirectives, r \in FmtPieces(m - 1)}
Formats == {p \o l : p \in FmtPieces(MaxPieces), l \in FmtLiterals}
FmtIdle == f_fmt = <<>> /\ f_argp = <<>>
FmtInit ==
  /\ f_fmt \in Formats
  /\ f_argp \in [1 .. MaxPieces -> 0 .. 1]
\* lua_pushvfstring(L, fmt, argp): luaO_pushvfstring, then luaC_checkGC,
\* which leaves the stack alone.  luaD_inctop makes room by itself, which
\* the stack of the model always has.  luaG_runerror leaves the frame with
\* LUA_ERRRUN.
lua_pushvfstring ==
  /\ L_status = LUA_OK
  /\ L_top + 1 <= MaxTop
  /\ L_top + 2 * MaxPieces + 2 < L_stack_last
  /\ LET r == luaO_pushvfstring(L_stack, f_fmt, f_argp, 0)
     IN  /\ L_stack' = r.stack
         /\ L_status' = IF r.raised THEN LUA_ERRRUN ELSE LUA_OK
         /\ a_last' = [NoApi EXCEPT !.op = "pushvfstring", !.top0 = L_top,
                                    !.ret = IF r.raised THEN LUA_ERRRUN ELSE LUA_OK]
  /\ UNCHANGED <<L_stacksize, L_ci, fmtvars, notapifmt>>
FmtNext == lua_pushnil \/ lua_pushvfstring

\* Every '%' of the format, read from the left two bytes at a time, is
\* followed by one of s c d I f p U %.
RECURSIVE FmtSupported(_)
FmtSupported(fmt) ==
  IF fmt = <<>> THEN TRUE
  ELSE IF Head(fmt) # ByteOf("%") THEN FmtSupported(Tail(fmt))
  ELSE Len(fmt) >= 2 /\ fmt[2] \in FmtOptions
       /\ FmtSupported(SubSeq(fmt, 3, Len(fmt)))

\* C38: luaO_pushvfstring leaves exactly one new value, a string, above
\* the values that were on the stack (net change of the top +1) for every
\* format made of literal text and any number of the directives %s %c %d
\* %I %f %p %U %%, and raises a runtime error when any other character
\* follows a '%'.
C38_PushFmtNetOne ==
  [][a_last'.op = "pushvfstring" =>
       IF FmtSupported(f_fmt)
         THEN /\ a_last'.ret = LUA_OK
              /\ Len(L_stack') = Len(L_stack) + 1
              /\ SubSeq(L_stack', 1, Len(L_stack)) = L_stack
              /\ ttisstring(L_stack'[Len(L_stack')])
         ELSE a_last'.ret = LUA_ERRRUN /\ L_status' = LUA_ERRRUN]_vars
\* The format "a%d%s" with -12 and "ax" has left "a-12ax" above a nil.
C38_Witness ==
  /\ a_last.op = "pushvfstring" /\ a_last.ret = LUA_OK
  /\ f_fmt = Bytes(<<"a", "%", "d", "%", "s">>)
  /\ L_stack = <<setnilvalue, setnilvalue,
                 FmtString(Bytes(<<"a", "-", "1", "2", "a", "x">>))>>

(***************************************************************************)
(* The specifications, one per subsystem.                                  *)
(***************************************************************************)
MemIdle == GCdebt = 0 /\ g_version = 1 /\ blocks = <<>> /\ m_last = NoCall
StrIdle ==
  /\ strt_hash = <<>> /\ strt_size = 0 /\ strt_nuse = 0
  /\ g_seed = 0 /\ g_currentwhite = 1 /\ g_gcstate = "pause"
  /\ s_last = NoStr
  /\ g_lngstrs = <<>>

ApiIdle ==
  /\ L_stack = <<>> /\ L_stacksize = 0 /\ L_ci = <<>> /\ L_status = LUA_OK
  /\ a_last = NoApi

InitNum ==
  NumInit /\ MemIdle /\ StrIdle /\ ApiIdle /\ VecIdle /\ HashIdle /\ ArithIdle /\ CacheIdle /\ HeapIdle /\ ThrIdle /\ UpvIdle /\ FmtIdle
SpecNum == InitNum /\ [][NumNext]_vars

InitMem ==
  MemInit /\ NumIdle /\ StrIdle /\ ApiIdle /\ VecIdle /\ HashIdle /\ ArithIdle /\ CacheIdle /\ HeapIdle /\ ThrIdle /\ UpvIdle /\ FmtIdle
SpecMem == InitMem /\ [][MemNext]_vars

InitStr ==
  StrInit /\ NumIdle /\ MemIdle /\ ApiIdle /\ VecIdle /\ HashIdle /\ ArithIdle /\ CacheIdle /\ HeapIdle /\ ThrIdle /\ UpvIdle /\ FmtIdle
SpecStr == InitStr /\ [][StrNext]_vars

InitApi ==
  ApiInit /\ NumIdle /\ MemIdle /\ StrIdle /\ VecIdle /\ HashIdle /\ ArithIdle /\ CacheIdle /\ HeapIdle /\ ThrIdle /\ UpvIdle /\ FmtIdle
SpecApi == InitApi /\ [][ApiNext]_vars

InitStk ==
  StkInit /\ NumIdle /\ MemIdle /\ StrIdle /\ VecIdle /\ HashIdle /\ ArithIdle /\ CacheIdle /\ HeapIdle /\ ThrIdle /\ UpvIdle /\ FmtIdle
SpecStk == InitStk /\ [][StkNext]_vars

InitConv ==
  ConvInit /\ NumIdle /\ MemIdle /\ StrIdle /\ VecIdle /\ HashIdle /\ ArithIdle /\ CacheIdle /\ HeapIdle /\ ThrIdle /\ UpvIdle /\ FmtIdle
SpecConv == InitConv /\ [][ConvNext]_vars

InitVec ==
  VecInit /\ NumIdle /\ MemIdle /\ StrIdle /\ ApiIdle /\ HashIdle /\ ArithIdle /\ CacheIdle /\ HeapIdle /\ ThrIdle /\ UpvIdle /\ FmtIdle
SpecVec == InitVec /\ [][VecNext]_vars

InitRealloc ==
  ReallocInit /\ NumIdle /\ MemIdle /\ StrIdle /\ ApiIdle /\ HashIdle /\ ArithIdle /\ CacheIdle /\ HeapIdle /\ ThrIdle /\ UpvIdle /\ FmtIdle
SpecRealloc == InitRealloc /\ [][ReallocNext]_vars

SpecTab == InitStr /\ [][TabNext]_vars

InitHash ==
  HashInit /\ NumIdle /\ MemIdle /\ StrIdle /\ ApiIdle /\ VecIdle /\ ArithIdle /\ CacheIdle /\ HeapIdle /\ ThrIdle /\ UpvIdle /\ FmtIdle
SpecHash == InitHash /\ [][HashNext]_vars

InitLng ==
  LngInit /\ NumIdle /\ MemIdle /\ ApiIdle /\ VecIdle /\ HashIdle /\ ArithIdle /\ CacheIdle /\ HeapIdle /\ ThrIdle /\ UpvIdle /\ FmtIdle
SpecLng == InitLng /\ [][LngNext]_vars

InitArith ==
  ArithInit /\ NumIdle /\ MemIdle /\ StrIdle /\ ApiIdle /\ VecIdle /\ HashIdle /\ CacheIdle /\ HeapIdle /\ ThrIdle /\ UpvIdle /\ FmtIdle
SpecArith == InitArith /\ [][ArithNext]_vars

InitCache ==
  CacheInit /\ NumIdle /\ MemIdle /\ StrIdle /\ ApiIdle /\ VecIdle /\ HashIdle
  /\ ArithIdle /\ HeapIdle /\ ThrIdle /\ UpvIdle /\ FmtIdle
SpecCache == InitCache /\ [][CacheNext]_vars

InitRot ==
  RotInit /\ NumIdle /\ MemIdle /\ StrIdle /\ VecIdle /\ HashIdle
  /\ ArithIdle /\ CacheIdle /\ HeapIdle /\ ThrIdle /\ UpvIdle /\ FmtIdle
SpecRot == InitRot /\ [][RotNext]_vars

InitThr ==
  StkInit /\ ThrInit /\ NumIdle /\ MemIdle /\ StrIdle /\ VecIdle /\ HashIdle
  /\ ArithIdle /\ CacheIdle /\ HeapIdle /\ UpvIdle /\ FmtIdle
SpecThr == InitThr /\ [][ThrNext]_vars
SpecXmove == InitThr /\ [][XmoveNext]_vars

InitHeap ==
  HeapInit /\ NumIdle /\ MemIdle /\ StrIdle /\ ApiIdle /\ VecIdle /\ HashIdle
  /\ ArithIdle /\ CacheIdle /\ ThrIdle /\ UpvIdle /\ FmtIdle
SpecMeta == InitHeap /\ [][MetaNext]_vars
SpecHeap == InitHeap /\ [][HeapNext]_vars
InitUpv ==
  UpvInit /\ NumIdle /\ MemIdle /\ StrIdle /\ ApiIdle /\ VecIdle /\ HashIdle
  /\ ArithIdle /\ CacheIdle /\ HeapIdle /\ ThrIdle /\ FmtIdle
SpecUpv == InitUpv /\ [][UpvNext]_vars

InitFmt ==
  ApiInit /\ FmtInit /\ NumIdle /\ MemIdle /\ StrIdle /\ VecIdle /\ HashIdle
  /\ ArithIdle /\ CacheIdle /\ HeapIdle /\ ThrIdle /\ UpvIdle
SpecFmt == InitFmt /\ [][FmtNext]_vars
====
